---------------------------- MODULE Spec2Model ----------------------------
(***************************************************************************)
(* A model of four fragments of the repository:                            *)
(*   - the workpad route table (src/public/apps/workpad/routes.js): the    *)
(*     createWorkpad and loadWorkpad route actions, the state store they   *)
(*     dispatch to, the workpad storage service and the router;            *)
(*   - createTopNFunctions (src/unnamed/part_001): the aggregation of      *)
(*     profiling events into a ranked, paginated list of frame groups;     *)
(*   - the handler of POST /api/watcher/fields (src/x-pack/.../host/       *)
(*     disk_read_iops.ts) with the field-capabilities call it awaits;      *)
(*   - the Assistant panel (src/unnamed/part_000): its component state,    *)
(*     its effects and its send-message and clear-chat handlers.           *)
(* Each fragment has its own specification (SpecRoutes, SpecTopN,          *)
(* SpecFields, SpecAssistant); the variables of the other fragments stay   *)
(* at their idle value. The Assistant panel has two: SpecAssistant is the  *)
(* panel with its sends, mounted on empty conversations none of which is   *)
(* flagged excludeFromLastConversationStorage; SpecPanel is the panel      *)
(* without sends, mounted on conversations that may hold messages and of   *)
(* which the welcome conversation is flagged, with the handlers that       *)
(* write the editing system prompt id. The sends write none of what        *)
(* SpecPanel is asked about (the editing system prompt id, the last-used   *)
(* conversation id, the auto-population at a render); the handlers         *)
(* SpecAssistant leaves out write the editing system prompt id and the     *)
(* selected conversation id alone, and a send reads that prompt id only    *)
(* to pick the system prompt handed to getCombinedMessage.                 *)
(***************************************************************************)
EXTENDS Integers, Sequences, FiniteSets, TLC

VARIABLES
  \* ---- workpad routes
  workpad,     \* the store's current workpad: [id, page] (page is zero-based)
  assets,      \* the store's asset collection
  storage,     \* the workpad storage service: the set of persisted workpad ids
  acts,        \* the route actions started so far, in order of their start
  pending,     \* navigations requested through router.redirectTo, not yet run
  url,         \* the most recent navigation the router ran
  \* ---- createTopNFunctions
  tn,          \* the run of createTopNFunctions (see InitTopN)
  \* ---- POST /api/watcher/fields
  fr,          \* the requests the handler was called with, in order of arrival
  \* ---- Assistant panel
  asst         \* the mounted AssistantComponent (see InitAssistant)

routeVars == <<workpad, assets, storage, acts, pending, url>>
vars == <<workpad, assets, storage, acts, pending, url, tn, fr, asst>>

(***************************************************************************)
(* Strings that the code converts (the page segment of the URL, the        *)
(* FrameGroupID) are sequences of one-character strings, so that parsing,  *)
(* formatting and comparing them is computed and not assumed.              *)
(***************************************************************************)
DigitChars == <<"0", "1", "2", "3", "4", "5", "6", "7", "8", "9">>

IsDigit(c) == \E i \in 1..10 : DigitChars[i] = c

DigitValue(c) == (CHOOSE i \in 1..10 : DigitChars[i] = c) - 1

IsSpace(c) == c = " "

RECURSIVE SkipSpaces(_)
SkipSpaces(s) ==
  IF s # <<>> /\ IsSpace(Head(s)) THEN SkipSpaces(Tail(s)) ELSE s

RECURSIVE DigitPrefixValue(_, _)
\* the value of the longest prefix of decimal digits of s, continuing from acc
DigitPrefixValue(s, acc) ==
  IF s # <<>> /\ IsDigit(Head(s))
    THEN DigitPrefixValue(Tail(s), 10 * acc + DigitValue(Head(s)))
    ELSE acc

NaN == [nan |-> TRUE, val |-> 0]

Num(n) == [nan |-> FALSE, val |-> n]

\* parseInt(string, 10): leading white space is skipped, one sign is taken,
\* then the longest run of digits; NaN when there is no digit there.
ParseInt(str) ==
  LET s    == SkipSpaces(str)
      neg  == s # <<>> /\ Head(s) = "-"
      body == IF s # <<>> /\ Head(s) \in {"-", "+"} THEN Tail(s) ELSE s
  IN  IF body = <<>> \/ ~IsDigit(Head(body))
        THEN NaN
        ELSE Num(IF neg THEN 0 - DigitPrefixValue(body, 0)
                        ELSE DigitPrefixValue(body, 0))

RECURSIVE NatToString(_)
NatToString(n) ==
  IF n < 10 THEN <<DigitChars[n + 1]>>
            ELSE NatToString(n \div 10) \o <<DigitChars[(n % 10) + 1]>>

\* String(n) of an integer, as the router writes a numeric parameter into a URL
IntToString(n) == IF n < 0 THEN <<"-">> \o NatToString(0 - n) ELSE NatToString(n)


(***************************************************************************)
(*                        The workpad route table                          *)
(***************************************************************************)
MaxNavs == 2         \* navigations the user makes in one behaviour
MaxPage == 2         \* largest zero-based page index the store starts with

NoId == ""
EmptyAssets == ""    \* the asset collection after resetAssets

\* the workpads the storage service holds at the start: [id, page, assets]
StoredWorkpads ==
  { [id |-> "W1", page |-> 0, assets |-> "A1"],
    [id |-> "W2", page |-> 2, assets |-> "A2"] }

\* the ids a URL may name: the stored ones, one the service does not hold,
\* and the ids of workpads created meanwhile
UnknownId == "X"

\* the page segments a URL may carry (besides none): a valid number, a number
\* followed by other text, and text that is no number
PageParams == { <<"1">>, <<"3">>, <<"2", "x">>, <<"x">> }

\* the ids successive calls of getDefaultWorkpad() generate
NewWorkpadIds == <<"N1", "N2", "N3", "N4", "N5", "N6">>

\* getDefaultWorkpad(): a workpad with a newly generated id, on its first page
getDefaultWorkpad(k) == [id |-> NewWorkpadIds[k], page |-> 0]

\* ---- what a route action does, as records [kind, name, id, page]
Call(name, id) == [kind |-> "call", name |-> name, id |-> id, page |-> 0]

Dispatch(name, id, page) ==
  [kind |-> "dispatch", name |-> name, id |-> id, page |-> page]

Redirect(name, id, page) ==
  [kind |-> "redirect", name |-> name, id |-> id, page |-> page]

setWorkpad(wp) == Dispatch("setWorkpad", wp.id, wp.page)

setAssets(a) == Dispatch("setAssets", a, 0)

resetAssets == Dispatch("resetAssets", NoId, 0)

gotoPage(pageIndex) == Dispatch("gotoPage", NoId, pageIndex)

\* ---- the state store: what one dispatched update does to it
ReduceWorkpad(wp, e) ==
  IF e.kind # "dispatch" THEN wp
  ELSE IF e.name = "setWorkpad" THEN [id |-> e.id, page |-> e.page]
  ELSE IF e.name = "gotoPage" THEN [wp EXCEPT !.page = e.page]
  ELSE wp

ReduceAssets(a, e) ==
  IF e.kind # "dispatch" THEN a
  ELSE IF e.name = "setAssets" THEN e.id
  ELSE IF e.name = "resetAssets" THEN EmptyAssets
  ELSE a

RECURSIVE FoldWorkpad(_, _)
FoldWorkpad(wp, effs) ==
  IF effs = <<>> THEN wp
  ELSE FoldWorkpad(ReduceWorkpad(wp, Head(effs)), Tail(effs))

RECURSIVE FoldAssets(_, _)
FoldAssets(a, effs) ==
  IF effs = <<>> THEN a
  ELSE FoldAssets(ReduceAssets(a, Head(effs)), Tail(effs))

\* ---- the router: redirectTo requests a navigation, which the router runs
\* later; a numeric parameter reaches the next action as the text of the URL
RedirectTarget(e) ==
  IF e.name = "home"
    THEN [route |-> "home", id |-> NoId, hasPage |-> FALSE, page |-> <<>>,
          origin |-> "redirect"]
    ELSE [route |-> e.name, id |-> e.id, hasPage |-> TRUE,
          page |-> IntToString(e.page), origin |-> "redirect"]

RECURSIVE Redirects(_)
Redirects(effs) ==
  IF effs = <<>> THEN <<>>
  ELSE IF Head(effs).kind = "redirect"
    THEN <<RedirectTarget(Head(effs))>> \o Redirects(Tail(effs))
    ELSE Redirects(Tail(effs))

\* workpadService.get(id): the stored workpad, or nothing
ServiceGet(id) ==
  IF \E r \in storage : r.id = id
    THEN LET r == CHOOSE r \in storage : r.id = id
         IN  [found |-> TRUE, id |-> r.id, page |-> r.page, assets |-> r.assets]
    ELSE [found |-> FALSE, id |-> id, page |-> 0, assets |-> EmptyAssets]

\* mutant: the assets are reset before the new workpad is set
CreateResume_ResetFirst(newWorkpad) ==
  << resetAssets,
     setWorkpad(newWorkpad),
     Redirect("loadWorkpad", newWorkpad.id, 1) >>

\* mutant: the redirect to the new workpad is left out
CreateResume_NoRedirect(newWorkpad) ==
  << setWorkpad(newWorkpad), resetAssets >>

\* ---- createWorkpad, after `await workpadService.create(newWorkpad)`
CreateResumeEffects(newWorkpad) ==
  << setWorkpad(newWorkpad),
     resetAssets,
     Redirect("loadWorkpad", newWorkpad.id, 1) >>

\* mutant: the redirect names the zero-based page index
LoadPage_ZeroBasedRedirect(wp, hasPage, page) ==
  LET pageNumber == IF hasPage THEN ParseInt(page) ELSE NaN
      pageIndex  == pageNumber.val - 1
  IN  IF pageNumber.nan
        THEN << Redirect("loadWorkpad", wp.id, wp.page) >>
        ELSE IF pageIndex # wp.page THEN << gotoPage(pageIndex) >> ELSE <<>>

\* mutant: the page of the URL is taken for the zero-based page index
LoadPage_PageIsIndex(wp, hasPage, page) ==
  LET pageNumber == IF hasPage THEN ParseInt(page) ELSE NaN
      pageIndex  == pageNumber.val
  IN  IF pageNumber.nan
        THEN << Redirect("loadWorkpad", wp.id, wp.page + 1) >>
        ELSE IF pageIndex # wp.page THEN << gotoPage(pageIndex) >> ELSE <<>>

\* mutant: gotoPage is dispatched whether or not the page index differs
LoadPage_AlwaysGoto(wp, hasPage, page) ==
  LET pageNumber == IF hasPage THEN ParseInt(page) ELSE NaN
      pageIndex  == pageNumber.val - 1
  IN  IF pageNumber.nan
        THEN << Redirect("loadWorkpad", wp.id, wp.page + 1) >>
        ELSE << gotoPage(pageIndex) >>

\* ---- loadWorkpad, from `const workpad = getWorkpad(getState())` to the end
LoadPageEffects(wp, hasPage, page) ==
  LET pageNumber == IF hasPage THEN ParseInt(page) ELSE NaN
      pageIndex  == pageNumber.val - 1
  IN  IF pageNumber.nan
        THEN << Redirect("loadWorkpad", wp.id, wp.page + 1) >>
        ELSE IF pageIndex # wp.page THEN << gotoPage(pageIndex) >> ELSE <<>>

\* mutant: the result of the fetch is dispatched without the null check
LoadFetched_NoNullCheck(fetchedWorkpad) ==
  << setAssets(fetchedWorkpad.assets),
     setWorkpad([id |-> fetchedWorkpad.id, page |-> fetchedWorkpad.page]) >>

\* ---- loadWorkpad, after `await workpadService.get(params.id)`
LoadFetchedEffects(fetchedWorkpad) ==
  IF ~fetchedWorkpad.found
    THEN << Redirect("home", NoId, 0) >>
    ELSE << setAssets(fetchedWorkpad.assets),
            setWorkpad([id |-> fetchedWorkpad.id, page |-> fetchedWorkpad.page]) >>

\* the whole continuation of loadWorkpad after the fetch
LoadResumeEffects(wp, fetchedWorkpad, hasPage, page) ==
  LET first == LoadFetchedEffects(fetchedWorkpad)
  IN  IF ~fetchedWorkpad.found
        THEN first
        ELSE first \o LoadPageEffects(FoldWorkpad(wp, first), hasPage, page)

\* loadWorkpad fetches when the URL names another workpad than the current one
LoadNeedsFetch(currentWorkpad, id) == id # currentWorkpad.id

NumCreates == Cardinality({i \in 1..Len(acts) : acts[i].route = "createWorkpad"})

NewAction(nav, pc, newId, effs) ==
  [route |-> nav.route, id |-> nav.id, hasPage |-> nav.hasPage, page |-> nav.page,
   origin |-> nav.origin, pc |-> pc, newId |-> newId, effects |-> effs]

\* createWorkpad up to its await: the default workpad is built and create called
CreateStart(nav) ==
  LET newWorkpad == getDefaultWorkpad(NumCreates + 1)
  IN  NewAction(nav, "awaitCreate", newWorkpad.id, << Call("create", newWorkpad.id) >>)

\* loadWorkpad up to its await, or to its end when it does not fetch
LoadStart(nav, currentWorkpad) ==
  IF LoadNeedsFetch(currentWorkpad, nav.id)
    THEN NewAction(nav, "awaitGet", NoId, << Call("get", nav.id) >>)
    ELSE NewAction(nav, "done", NoId,
                   LoadPageEffects(currentWorkpad, nav.hasPage, nav.page))

\* The router runs the action of the route a navigation resolves to; what the
\* action dispatches reaches the store, what it redirects to is queued behind
\* `rest`, the navigations still waiting.
StartAction(nav, rest) ==
  LET a == IF nav.route = "createWorkpad" THEN CreateStart(nav)
                                          ELSE LoadStart(nav, workpad)
  IN  /\ url' = nav
      /\ acts' = Append(acts, a)
      /\ workpad' = FoldWorkpad(workpad, a.effects)
      /\ assets' = FoldAssets(assets, a.effects)
      /\ pending' = rest \o Redirects(a.effects)

UrlIds == {r.id : r \in storage} \cup {UnknownId}

NumUserNavs == Cardinality({i \in 1..Len(acts) : acts[i].origin = "user"})

UserNav(route, id, hasPage, page) ==
  [route |-> route, id |-> id, hasPage |-> hasPage, page |-> page,
   origin |-> "user"]

\* the user opens /workpad/create
NavigateCreate ==
  /\ NumUserNavs < MaxNavs
  /\ StartAction(UserNav("createWorkpad", NoId, FALSE, <<>>), pending)
  /\ UNCHANGED <<storage, tn, fr, asst>>

\* the user opens /workpad/:id
NavigateLoadNoPage ==
  \E id \in UrlIds :
    /\ NumUserNavs < MaxNavs
    /\ StartAction(UserNav("loadWorkpad", id, FALSE, <<>>), pending)
    /\ UNCHANGED <<storage, tn, fr, asst>>

\* the user opens /workpad/:id/page/:page
NavigateLoadPage ==
  \E id \in UrlIds, page \in PageParams :
    /\ NumUserNavs < MaxNavs
    /\ StartAction(UserNav("loadWorkpad", id, TRUE, page), pending)
    /\ UNCHANGED <<storage, tn, fr, asst>>

\* the router runs a navigation that redirectTo requested; the home route has
\* no action in this table
FollowRedirect ==
  /\ pending # <<>>
  /\ IF Head(pending).route = "home"
       THEN /\ url' = Head(pending)
            /\ pending' = Tail(pending)
            /\ UNCHANGED <<workpad, assets, acts>>
       ELSE StartAction(Head(pending), Tail(pending))
  /\ UNCHANGED <<storage, tn, fr, asst>>

\* one step of action i: its effects are recorded, dispatched and redirected
Resume(i, pc, effs) ==
  /\ acts' = [acts EXCEPT ![i].pc = pc, ![i].effects = @ \o effs]
  /\ workpad' = FoldWorkpad(workpad, effs)
  /\ assets' = FoldAssets(assets, effs)
  /\ pending' = pending \o Redirects(effs)
  /\ UNCHANGED <<url, tn, fr, asst>>

\* workpadService.create resolves: the workpad is persisted, createWorkpad goes on
CreateResolve ==
  \E i \in 1..Len(acts) :
    /\ acts[i].pc = "awaitCreate"
    /\ LET newWorkpad == [id |-> acts[i].newId, page |-> 0]
       IN  /\ storage' = storage \cup
                 {[id |-> newWorkpad.id, page |-> 0, assets |-> EmptyAssets]}
           /\ Resume(i, "done", CreateResumeEffects(newWorkpad))

\* mutant: the action goes on after a create call that failed
CreateReject_GoesOn ==
  \E i \in 1..Len(acts) :
    /\ acts[i].pc = "awaitCreate"
    /\ Resume(i, "failed",
              CreateResumeEffects([id |-> acts[i].newId, page |-> 0]))
    /\ UNCHANGED storage

\* workpadService.create rejects: the await throws and the action ends there
CreateReject ==
  \E i \in 1..Len(acts) :
    /\ acts[i].pc = "awaitCreate"
    /\ Resume(i, "failed", <<>>)
    /\ UNCHANGED storage

\* workpadService.get resolves, with the workpad or with nothing
GetResolve ==
  \E i \in 1..Len(acts) :
    /\ acts[i].pc = "awaitGet"
    /\ Resume(i, "done",
              LoadResumeEffects(workpad, ServiceGet(acts[i].id),
                                acts[i].hasPage, acts[i].page))
    /\ UNCHANGED storage

\* workpadService.get rejects: the await throws and the action ends there
GetReject ==
  \E i \in 1..Len(acts) :
    /\ acts[i].pc = "awaitGet"
    /\ Resume(i, "failed", <<>>)
    /\ UNCHANGED storage

TopNIdle == [pc |-> "idle"]

\* no request has reached the handler of POST /api/watcher/fields
FieldsIdle == <<>>

\* the Assistant panel is not mounted
AssistantIdle == [mounted |-> FALSE]

InitRoutes ==
  /\ \E id \in {"W0"} \cup {r.id : r \in StoredWorkpads}, p \in 0..MaxPage :
       /\ workpad = [id |-> id, page |-> p]
       /\ assets = IF id = "W0" THEN EmptyAssets
                   ELSE (CHOOSE r \in StoredWorkpads : r.id = id).assets
  /\ storage = StoredWorkpads
  /\ acts = <<>>
  /\ pending = <<>>
  /\ url = UserNav("home", NoId, FALSE, <<>>)
  /\ tn = TopNIdle
  /\ fr = FieldsIdle
  /\ asst = AssistantIdle

NextRoutes ==
  \/ NavigateCreate
  \/ NavigateLoadNoPage
  \/ NavigateLoadPage
  \/ FollowRedirect
  \/ CreateResolve
  \/ CreateReject
  \/ GetResolve
  \/ GetReject

SpecRoutes == InitRoutes /\ [][NextRoutes]_vars

(***************************************************************************)
(*                    Properties of the workpad routes                     *)
(***************************************************************************)
ActIds == 1..Len(acts)

Last(seq) == seq[Len(seq)]

HasEffect(i, kind, name) ==
  \E k \in 1..Len(acts[i].effects) :
    acts[i].effects[k].kind = kind /\ acts[i].effects[k].name = name

\* the page parameter of action i does not give parseInt an integer
PageIsNaN(a) == IF a.hasPage THEN ParseInt(a.page).nan ELSE TRUE

\* action i of the next state was started and run to its end in this step
StartsDone(i) ==
  /\ Len(acts') = Len(acts) + 1
  /\ i = Len(acts')
  /\ acts'[i].pc = "done"

\* action i was waiting for its fetch and runs to its end in this step
ResumesDone(i) ==
  /\ i \in ActIds
  /\ acts[i].pc = "awaitGet"
  /\ acts'[i].pc = "done"

\* C1: a createWorkpad action whose create call resolved has made exactly one
\* create call with the new default workpad and then, in this order and once
\* each, setWorkpad(newWorkpad), resetAssets() and the redirect to loadWorkpad
\* with the new id and page 1; before the call resolves it has done nothing
\* but the create call.
C1_CreateSequence ==
  \A i \in ActIds :
    acts[i].route = "createWorkpad" =>
      /\ acts[i].pc = "awaitCreate" =>
           acts[i].effects = << Call("create", acts[i].newId) >>
      /\ acts[i].pc = "done" =>
           acts[i].effects =
             << Call("create", acts[i].newId),
                Dispatch("setWorkpad", acts[i].newId, 0),
                Dispatch("resetAssets", NoId, 0),
                Redirect("loadWorkpad", acts[i].newId, 1) >>

C1_Witness ==
  \E i \in ActIds : acts[i].route = "createWorkpad" /\ acts[i].pc = "done"

\* C2: when loadWorkpad fetched (the id differs from the current workpad's)
\* and the storage service returns nothing, the action redirects to home,
\* dispatches neither setAssets nor setWorkpad nor gotoPage, and the store
\* is as it was.
C2_NotFoundRedirectsHome ==
  [][ \A i \in ActIds :
        (ResumesDone(i) /\ ~ServiceGet(acts[i].id).found) =>
          /\ acts'[i].effects = << Call("get", acts[i].id), Redirect("home", NoId, 0) >>
          /\ workpad' = workpad
          /\ assets' = assets
          /\ Last(pending').route = "home" ]_vars

C2_Witness ==
  \E i \in ActIds :
    /\ acts[i].route = "loadWorkpad"
    /\ acts[i].pc = "done"
    /\ HasEffect(i, "call", "get")
    /\ HasEffect(i, "redirect", "home")

\* what C3 asks of an action that ends in this step: its last effect is the
\* redirect to loadWorkpad with the id of the workpad now in the store and
\* that workpad's page index + 1, and it dispatched no gotoPage
CanonicalRedirect(i) ==
  /\ acts'[i].effects # <<>>
  /\ Last(acts'[i].effects) =
       Redirect("loadWorkpad", workpad'.id, workpad'.page + 1)
  /\ \A k \in 1..Len(acts'[i].effects) : acts'[i].effects[k].name # "gotoPage"

\* C3 as stated: every loadWorkpad action that runs to its end with a page
\* parameter that is absent or no integer redirects to loadWorkpad with the
\* current workpad's id and page index + 1 and dispatches no gotoPage.
C3_Original ==
  [][ \A i \in 1..Len(acts') :
        ((StartsDone(i) \/ ResumesDone(i))
           /\ acts'[i].route = "loadWorkpad" /\ PageIsNaN(acts'[i]))
          => CanonicalRedirect(i) ]_vars

\* C3 as amended: the same, for the actions that did not fetch or whose fetch
\* returned a workpad; when the fetch returns nothing the action redirects to
\* home instead.
C3_CanonicalRedirect ==
  [][ \A i \in 1..Len(acts') :
        /\ (StartsDone(i) /\ acts'[i].route = "loadWorkpad" /\ PageIsNaN(acts'[i]))
             => CanonicalRedirect(i)
        /\ (ResumesDone(i) /\ PageIsNaN(acts[i]))
             => IF ServiceGet(acts[i].id).found
                  THEN CanonicalRedirect(i)
                  ELSE Last(acts'[i].effects) = Redirect("home", NoId, 0) ]_vars

C3_Witness ==
  \E i \in ActIds :
    /\ acts[i].route = "loadWorkpad"
    /\ acts[i].pc = "done"
    /\ PageIsNaN(acts[i])
    /\ HasEffect(i, "dispatch", "setWorkpad")
    /\ Last(acts[i].effects) = Redirect("loadWorkpad", acts[i].id, 3)

\* C4: two overlapping loadWorkpad navigations of the user have both fetched
\* and both run to their end, and no navigation is waiting: the workpad in
\* the store is the one the most recent navigation names, on that
\* navigation's page - 1.
C4_StateInSyncWithUrl ==
  ( /\ Len(acts) = 2
    /\ pending = <<>>
    /\ \A i \in ActIds :
         /\ acts[i].route = "loadWorkpad"
         /\ acts[i].origin = "user"
         /\ acts[i].pc = "done"
         /\ HasEffect(i, "call", "get")
         /\ HasEffect(i, "dispatch", "setWorkpad")
    /\ url = [route |-> "loadWorkpad", id |-> acts[2].id,
              hasPage |-> acts[2].hasPage, page |-> acts[2].page,
              origin |-> "user"]
    /\ ~PageIsNaN(acts[2]) )
  => /\ workpad.id = url.id
     /\ workpad.page = ParseInt(url.page).val - 1

\* C5 as stated: every createWorkpad action that has ended, whatever the
\* outcome of the create call, ended with a redirect to loadWorkpad.
C5_Original ==
  \A i \in ActIds :
    (acts[i].route = "createWorkpad" /\ acts[i].pc \in {"done", "failed"}) =>
      /\ Last(acts[i].effects).kind = "redirect"
      /\ Last(acts[i].effects).name = "loadWorkpad"

\* C5 as amended: a createWorkpad action whose create call resolved ended
\* with a redirect to loadWorkpad, its only redirect; one whose create call
\* failed ended without any redirect.
C5_RedirectAfterCreate ==
  \A i \in ActIds :
    acts[i].route = "createWorkpad" =>
      /\ acts[i].pc = "done" =>
           /\ Last(acts[i].effects).kind = "redirect"
           /\ Last(acts[i].effects).name = "loadWorkpad"
           /\ \A k \in 1..(Len(acts[i].effects) - 1) :
                acts[i].effects[k].kind # "redirect"
      /\ acts[i].pc = "failed" =>
           \A k \in 1..Len(acts[i].effects) : acts[i].effects[k].kind # "redirect"

C5_Witness ==
  /\ \E i \in ActIds : acts[i].route = "createWorkpad" /\ acts[i].pc = "done"
  /\ \E i \in ActIds : acts[i].route = "createWorkpad" /\ acts[i].pc = "failed"

\* C26: when the create call of a createWorkpad action fails the action ends
\* with the failure: it has made the create call and nothing else, no
\* setWorkpad, no resetAssets and no redirect, in the step of the failure the
\* store and the queue of navigations stay as they are, and the action does
\* nothing afterwards.
C26_CreateFailure ==
  [][ \A i \in ActIds :
        /\ (acts[i].pc = "awaitCreate" /\ acts'[i].pc = "failed") =>
             /\ acts'[i].effects = << Call("create", acts[i].newId) >>
             /\ workpad' = workpad
             /\ assets' = assets
             /\ pending' = pending
        /\ (acts[i].route = "createWorkpad" /\ acts[i].pc = "failed") =>
             acts'[i] = acts[i] ]_vars

\* the create call of /workpad/create failed: the store holds the workpad it
\* held, no navigation waits and the URL is still the one of the create route
C26_Witness ==
  /\ Len(acts) = 1
  /\ acts[1].route = "createWorkpad"
  /\ acts[1].pc = "failed"
  /\ acts[1].effects = << Call("create", acts[1].newId) >>
  /\ workpad.id # acts[1].newId
  /\ assets # EmptyAssets
  /\ pending = <<>>
  /\ url.route = "createWorkpad"

\* action i of the next state is started in this step
Starts(i) ==
  /\ Len(acts') = Len(acts) + 1
  /\ i = Len(acts')

\* action i ends in this step with a redirect to loadWorkpad
EndsRedirecting(i) ==
  /\ StartsDone(i) \/ (i \in ActIds /\ acts[i].pc # "done" /\ acts'[i].pc = "done")
  /\ acts'[i].effects # <<>>
  /\ Last(acts'[i].effects).kind = "redirect"
  /\ Last(acts'[i].effects).name = "loadWorkpad"

\* the navigation nav names the workpad wp and, one-based, its page
NamesStore(nav, wp) ==
  /\ nav.route = "loadWorkpad"
  /\ nav.id = wp.id
  /\ nav.hasPage
  /\ ~ParseInt(nav.page).nan
  /\ ParseInt(nav.page).val = wp.page + 1

\* C29: the redirect chain ends. A redirect to loadWorkpad, that of
\* createWorkpad (new id, page 1) and the page-canonicalizing one of
\* loadWorkpad, names the workpad the store then holds and its page; and
\* the loadWorkpad the router runs for a redirect that names the workpad and
\* the page of the store, as it does when nothing happened in between,
\* fetches nothing, dispatches nothing and redirects nowhere.
C29_RedirectChainEnds ==
  [][ \A i \in 1..Len(acts') :
        /\ EndsRedirecting(i) =>
             /\ pending' # <<>>
             /\ Last(pending').origin = "redirect"
             /\ NamesStore(Last(pending'), workpad')
             /\ acts'[i].route = "createWorkpad" =>
                  /\ Last(pending').id = acts'[i].newId
                  /\ Last(pending').page = <<"1">>
        /\ (Starts(i) /\ acts'[i].origin = "redirect"
              /\ NamesStore(acts'[i], workpad)) =>
             /\ acts'[i].pc = "done"
             /\ acts'[i].effects = <<>>
             /\ pending' = Tail(pending)
             /\ workpad' = workpad
             /\ assets' = assets ]_vars

\* both chains have ended: createWorkpad and the loadWorkpad of its redirect,
\* which did nothing, and a loadWorkpad without page and the loadWorkpad of
\* its redirect, which did nothing; no navigation waits
C29_Witness ==
  /\ pending = <<>>
  /\ \E i \in ActIds :
       /\ i + 1 \in ActIds
       /\ acts[i].route = "createWorkpad" /\ acts[i].pc = "done"
       /\ acts[i + 1].route = "loadWorkpad" /\ acts[i + 1].origin = "redirect"
       /\ acts[i + 1].id = acts[i].newId
       /\ acts[i + 1].page = <<"1">>
       /\ acts[i + 1].pc = "done" /\ acts[i + 1].effects = <<>>
  /\ \E j \in ActIds :
       /\ j + 1 \in ActIds
       /\ acts[j].route = "loadWorkpad" /\ acts[j].pc = "done"
       /\ PageIsNaN(acts[j])
       /\ Last(acts[j].effects).kind = "redirect"
       /\ Last(acts[j].effects).name = "loadWorkpad"
       /\ acts[j + 1].route = "loadWorkpad" /\ acts[j + 1].origin = "redirect"
       /\ acts[j + 1].id = acts[j].id
       /\ acts[j + 1].pc = "done" /\ acts[j + 1].effects = <<>>

\* what C25 asks for the page n when the workpad in the store is wp
PageDispatches(wp, n) ==
  IF n - 1 # wp.page THEN << Dispatch("gotoPage", NoId, n - 1) >> ELSE <<>>

\* what C25 asks of a fetch that returned the workpad f
FetchDispatches(f) ==
  << Call("get", f.id),
     Dispatch("setAssets", f.assets, 0),
     Dispatch("setWorkpad", f.id, f.page) >>

\* C25 as stated: a loadWorkpad action whose page parameter parses as the
\* integer n calls the storage get exactly when its id differs from the
\* current workpad's, dispatches setAssets and then setWorkpad when the fetch
\* returns a workpad, dispatches gotoPage(n - 1) exactly when n - 1 differs
\* from the page index of the workpad in the store after any fetch, and does
\* not redirect.
C25_Original ==
  [][ \A i \in 1..Len(acts') :
        LET a == acts'[i]
            n == ParseInt(a.page).val
            f == ServiceGet(a.id)
        IN  (a.route = "loadWorkpad" /\ ~PageIsNaN(a)) =>
              /\ Starts(i) =>
                   ((Call("get", a.id) \in {a.effects[k] : k \in 1..Len(a.effects)})
                      <=> a.id # workpad.id)
              /\ StartsDone(i) => a.effects = PageDispatches(workpad, n)
              /\ ResumesDone(i) =>
                   /\ \A k \in 1..Len(a.effects) : a.effects[k].kind # "redirect"
                   /\ a.effects =
                        IF f.found
                          THEN FetchDispatches(f) \o PageDispatches(f, n)
                          ELSE << Call("get", a.id) >> \o PageDispatches(workpad, n)
    ]_vars

\* C25 as amended: the same when the action did not fetch or its fetch
\* returned a workpad; when the fetch returns nothing the action redirects
\* to home and dispatches nothing, whatever the page.
C25_PageDispatch ==
  [][ \A i \in 1..Len(acts') :
        LET a == acts'[i]
            n == ParseInt(a.page).val
            f == ServiceGet(a.id)
        IN  (a.route = "loadWorkpad" /\ ~PageIsNaN(a)) =>
              /\ Starts(i) =>
                   ((Call("get", a.id) \in {a.effects[k] : k \in 1..Len(a.effects)})
                      <=> a.id # workpad.id)
              /\ StartsDone(i) => a.effects = PageDispatches(workpad, n)
              /\ ResumesDone(i) =>
                   a.effects =
                     IF f.found
                       THEN FetchDispatches(f) \o PageDispatches(f, n)
                       ELSE << Call("get", a.id), Redirect("home", NoId, 0) >>
    ]_vars

\* /workpad/W1/page/3 opened on another workpad: W1 is fetched and set on its
\* stored page and gotoPage(2) follows; and a page that is the one of the
\* workpad in the store, which dispatches nothing
C25_Witness ==
  /\ \E i \in ActIds :
       /\ acts[i].route = "loadWorkpad" /\ acts[i].pc = "done"
       /\ acts[i].effects =
            << Call("get", "W1"), Dispatch("setAssets", "A1", 0),
               Dispatch("setWorkpad", "W1", 0), Dispatch("gotoPage", NoId, 2) >>
  /\ \E i \in ActIds :
       /\ acts[i].route = "loadWorkpad" /\ acts[i].pc = "done"
       /\ acts[i].origin = "user"
       /\ ~PageIsNaN(acts[i])
       /\ acts[i].effects = <<>>

(***************************************************************************)
(*                         createTopNFunctions                             *)
(***************************************************************************)
MaxFrames == 3       \* frames of one stack trace
MaxCount == 2        \* largest raw count of one event
MaxIndex == 3        \* largest startIndex and endIndex requested

\* the keys of the events map, in its iteration order
StackTraceIDs == <<"T1", "T2">>

\* One position of a stack trace: the entries of FrameIDs, FileIDs and
\* AddressOrLines at the same index. FrameA and FrameB are known to
\* stackFrames and executables, FrameC to neither.
FrameA == [FrameID |-> "fa", FileID |-> <<"x">>, AddressOrLine |-> 1]

FrameB == [FrameID |-> "fb", FileID |-> <<"x">>, AddressOrLine |-> 2]

FrameC == [FrameID |-> "fc", FileID |-> <<"y">>, AddressOrLine |-> 1]

FrameUniverse == {FrameA, FrameB, FrameC}

emptyStackTrace == <<>>

emptyStackFrame == [FileName |-> <<>>, FunctionName |-> <<>>]

emptyExecutable == [FileName |-> <<>>]

\* the stackFrames and executables maps handed to createTopNFunctions
stackFrames ==
  [id \in {"fa", "fb"} |->
     IF id = "fa" THEN [FileName |-> <<"s">>, FunctionName |-> <<"f">>]
                  ELSE [FileName |-> <<"s">>, FunctionName |-> <<"g">>]]

executables == [id \in {<<"x">>} |-> [FileName |-> <<"e">>]]

\* mutant: a missing key yields an entry of the map
GetOr_SomeEntry(map, key, fallback) ==
  IF key \in DOMAIN map THEN map[key] ELSE map[CHOOSE k \in DOMAIN map : TRUE]

\* map.get(key) ?? fallback
GetOr(map, key, fallback) == IF key \in DOMAIN map THEN map[key] ELSE fallback

\* createFrameGroupID: one string per distinct tuple (fileID, addressOrLine,
\* executable file name, source file name, function name)
createFrameGroupID(fileID, addressOrLine, exeFilename, sourceFilename, functionName) ==
  fileID \o <<";">> \o IntToString(addressOrLine) \o <<";">> \o exeFilename
         \o <<";">> \o sourceFilename \o <<";">> \o functionName

\* the frame group id computed for one position of a stack trace
FrameGroupIDs ==
  [f \in FrameUniverse |->
     LET frame      == GetOr(stackFrames, f.FrameID, emptyStackFrame)
         executable == GetOr(executables, f.FileID, emptyExecutable)
     IN  createFrameGroupID(f.FileID, f.AddressOrLine, executable.FileName,
                            frame.FileName, frame.FunctionName)]

FrameGroupOf(f) == FrameGroupIDs[f]

\* samplingRate is num/den; the rates drawn are those whose reciprocal is an
\* integer, so that count * (1.0 / samplingRate) is exact
SamplingRates == { [num |-> 1, den |-> 1], [num |-> 1, den |-> 2] }

ScalingFactor(samplingRate) == samplingRate.den \div samplingRate.num

\* mutant: the raw count is added as it is
ScaledCount_Unscaled(count, samplingRate) == count

ScaledCount(count, samplingRate) == count * ScalingFactor(samplingRate)

IndexOfGroup(acc, g) ==
  IF \E k \in 1..Len(acc) : acc[k].FrameGroupID = g
    THEN CHOOSE k \in 1..Len(acc) : acc[k].FrameGroupID = g
    ELSE 0

\* topNFunctions.get(frameGroupID), the entry being created when there is none;
\* the map keeps the order in which its keys were inserted
WithGroup(acc, g, f) ==
  IF IndexOfGroup(acc, g) # 0 THEN acc
  ELSE Append(acc, [FrameGroupID |-> g, Frame |-> f,
                    CountExclusive |-> 0, CountInclusive |-> 0])

\* mutant: CountInclusive grows at every position of the trace
AddInclusive_EveryPosition(entry, g, seen, scaledCount) ==
  [entry EXCEPT !.CountInclusive = @ + scaledCount]

\* CountInclusive grows once per event and frame group
AddInclusive(entry, g, seen, scaledCount) ==
  IF g \notin seen
    THEN [entry EXCEPT !.CountInclusive = @ + scaledCount]
    ELSE entry

\* mutant: the first frame of the trace is taken for the leaf
AddExclusive_FirstFrame(entry, i, lenStackTrace, scaledCount) ==
  IF i = 1
    THEN [entry EXCEPT !.CountExclusive = @ + scaledCount]
    ELSE entry

\* mutant: CountExclusive grows at every position of the trace
AddExclusive_EveryPosition(entry, i, lenStackTrace, scaledCount) ==
  [entry EXCEPT !.CountExclusive = @ + scaledCount]

\* CountExclusive grows for the leaf frame, the last of the trace
AddExclusive(entry, i, lenStackTrace, scaledCount) ==
  IF i = lenStackTrace
    THEN [entry EXCEPT !.CountExclusive = @ + scaledCount]
    ELSE entry

RECURSIVE FrameLoop(_, _, _, _, _)
\* the loop over the frames of one stack trace, from position i on (1-based);
\* seen is uniqueFrameGroupsPerEvent
FrameLoop(acc, seen, frames, i, scaledCount) ==
  IF i > Len(frames) THEN acc
  ELSE LET g    == FrameGroupOf(frames[i])
           acc1 == WithGroup(acc, g, frames[i])
           k    == IndexOfGroup(acc1, g)
           e1   == AddInclusive(acc1[k], g, seen, scaledCount)
           e2   == AddExclusive(e1, i, Len(frames), scaledCount)
       IN  FrameLoop([acc1 EXCEPT ![k] = e2], seen \cup {g}, frames, i + 1,
                     scaledCount)

\* one iteration of the loop over events
EventStep(acc, stackTrace, scaledCount) ==
  FrameLoop(acc, {}, stackTrace, 1, scaledCount)

\* ---- the sort: ascending by CountExclusive, then by FrameGroupID, reversed
\* the collation order of the characters frame group ids are made of
CollationOrder ==
  <<";", "0", "1", "2", "3", "4", "5", "6", "7", "8", "9",
    "e", "f", "g", "s", "x", "y">>

CollationRank(c) == CHOOSE i \in 1..Len(CollationOrder) : CollationOrder[i] = c

RECURSIVE localeCompare(_, _)
\* a.localeCompare(b): negative, zero or positive
localeCompare(a, b) ==
  IF a = <<>> /\ b = <<>> THEN 0
  ELSE IF a = <<>> THEN -1
  ELSE IF b = <<>> THEN 1
  ELSE IF CollationRank(Head(a)) < CollationRank(Head(b)) THEN -1
  ELSE IF CollationRank(Head(a)) > CollationRank(Head(b)) THEN 1
  ELSE localeCompare(Tail(a), Tail(b))

\* mutant: entries of equal CountExclusive compare equal
CompareTopN_NoTieBreak(a, b) ==
  IF a.CountExclusive > b.CountExclusive THEN 1
  ELSE IF a.CountExclusive < b.CountExclusive THEN -1
  ELSE 0

\* the comparator handed to sort
CompareTopN(a, b) ==
  IF a.CountExclusive > b.CountExclusive THEN 1
  ELSE IF a.CountExclusive < b.CountExclusive THEN -1
  ELSE localeCompare(a.FrameGroupID, b.FrameGroupID)

RECURSIVE InsertSorted(_, _)
\* x goes behind every element that does not compare greater (a stable sort)
InsertSorted(sorted, x) ==
  IF sorted = <<>> THEN <<x>>
  ELSE IF CompareTopN(Head(sorted), x) > 0 THEN <<x>> \o sorted
  ELSE <<Head(sorted)>> \o InsertSorted(Tail(sorted), x)

RECURSIVE SortAscending(_)
SortAscending(list) ==
  IF list = <<>> THEN <<>>
  ELSE InsertSorted(SortAscending(SubSeq(list, 1, Len(list) - 1)), list[Len(list)])

Reverse(list) == [k \in 1..Len(list) |-> list[Len(list) + 1 - k]]

SortTopN(acc) == Reverse(SortAscending(acc))

\* ---- pagination
ClampIndex(index, length) == IF index > length THEN length ELSE index

\* Array.prototype.slice(start, end) for start, end >= 0
Slice(list, start, end) ==
  LET from == IF start > Len(list) THEN Len(list) ELSE start
      to   == IF end > Len(list) THEN Len(list) ELSE end
  IN  IF to > from THEN [k \in 1..(to - from) |-> list[from + k]] ELSE <<>>

\* ---- numbers that need not be integers
\* The quotient of two integers is kept exact: a fraction in lowest terms
\* with a positive denominator, or NaN (0 / 0), or an infinity (x / 0).
RECURSIVE Gcd(_, _)
Gcd(a, b) == IF b = 0 THEN a ELSE Gcd(b, a % b)

Abs(n) == IF n < 0 THEN -n ELSE n

Fraction(num, den) ==
  LET g == Gcd(Abs(num), Abs(den))
      s == IF den < 0 THEN -1 ELSE 1
  IN  [kind |-> "finite", num |-> s * (num \div g), den |-> s * (den \div g)]

NotANumber == [kind |-> "NaN", num |-> 0, den |-> 0]

Infinity(sign) == [kind |-> "Infinity", num |-> sign, den |-> 0]

\* a / b for integers a and b
Divide(a, b) ==
  IF b # 0 THEN Fraction(a, b)
  ELSE IF a = 0 THEN NotANumber
  ELSE Infinity(IF a < 0 THEN -1 ELSE 1)

\* q * k for an integer k > 0
Times(q, k) == IF q.kind = "finite" THEN Fraction(q.num * k, q.den) ELSE q

\* mutant: the share is not turned into a percentage
Percent_Share(count, totalCount) == Divide(count, totalCount)

\* (count / totalCount) * 100
Percent(count, totalCount) == Times(Divide(count, totalCount), 100)

\* ---- impact estimates
Undefined == [kind |-> "undefined"]

\* calculateImpactEstimates: a value determined by its four arguments
calculateImpactEstimates(countExclusive, countInclusive, totalSamples, totalSeconds) ==
  [kind |-> "impactEstimates",
   countExclusive |-> countExclusive, countInclusive |-> countInclusive,
   totalSamples |-> totalSamples, totalSeconds |-> totalSeconds]

\* mutant: the estimates are also computed for totalSeconds = 0
ImpactEstimates_FromZero(countExclusive, countInclusive, totalCount, totalSeconds) ==
  IF totalSeconds >= 0
    THEN calculateImpactEstimates(countExclusive, countInclusive, totalCount, totalSeconds)
    ELSE Undefined

\* totalSeconds > 0 ? calculateImpactEstimates({...}) : undefined
ImpactEstimates(countExclusive, countInclusive, totalCount, totalSeconds) ==
  IF totalSeconds > 0
    THEN calculateImpactEstimates(countExclusive, countInclusive, totalCount, totalSeconds)
    ELSE Undefined

\* mutant: Rank is the zero-based position
TopNRow_RankFromZero(frameAndCount, i, totalCount, totalSeconds) ==
  [Rank |-> i,
   Frame |-> frameAndCount.Frame,
   CountExclusive |-> frameAndCount.CountExclusive,
   selfCPUPerc |-> Percent(frameAndCount.CountExclusive, totalCount),
   CountInclusive |-> frameAndCount.CountInclusive,
   totalCPUPerc |-> Percent(frameAndCount.CountInclusive, totalCount),
   Id |-> frameAndCount.FrameGroupID,
   impactEstimates |-> ImpactEstimates(frameAndCount.CountExclusive,
                         frameAndCount.CountInclusive, totalCount, totalSeconds)]

\* the row made of the entry at (zero-based) position i of the slice
TopNRow(frameAndCount, i, totalCount, totalSeconds) ==
  [Rank |-> i + 1,
   Frame |-> frameAndCount.Frame,
   CountExclusive |-> frameAndCount.CountExclusive,
   selfCPUPerc |-> Percent(frameAndCount.CountExclusive, totalCount),
   CountInclusive |-> frameAndCount.CountInclusive,
   totalCPUPerc |-> Percent(frameAndCount.CountInclusive, totalCount),
   Id |-> frameAndCount.FrameGroupID,
   impactEstimates |-> ImpactEstimates(frameAndCount.CountExclusive,
                         frameAndCount.CountInclusive, totalCount, totalSeconds)]

MapRows(slice, totalCount, totalSeconds) ==
  [k \in 1..Len(slice) |-> TopNRow(slice[k], k - 1, totalCount, totalSeconds)]

RECURSIVE SumBy(_, _)
SumBy(rows, field) ==
  IF rows = <<>> THEN 0 ELSE rows[1][field] + SumBy(Tail(rows), field)

RECURSIVE AggregateEvents(_, _, _)
\* the whole loop over events: the frame groups after the last event
AggregateEvents(events, stackTraces, samplingRate) ==
  IF events = <<>> THEN <<>>
  ELSE LET n == Len(events)
       IN  EventStep(AggregateEvents(SubSeq(events, 1, n - 1),
                                     SubSeq(stackTraces, 1, n - 1), samplingRate),
                     IF stackTraces[n].found THEN stackTraces[n].frames
                                             ELSE emptyStackTrace,
                     ScaledCount(events[n].count, samplingRate))

AllTraces == UNION { [1..n -> FrameUniverse] : n \in 0..MaxFrames }

\* the totalSeconds argument: negative, zero and positive
TotalSecondsValues == {-1, 0, 1}

\* the run of createTopNFunctions: its arguments as far as it has read them
\* (samplingRate; events and the stackTraces entries it looked up; startIndex
\* and endIndex once it paginates), its locals and its result
InitTopN ==
  /\ \E rate \in SamplingRates :
       tn = [pc |-> "events", samplingRate |-> rate,
             events |-> <<>>, stackTraces |-> <<>>,
             totalCount |-> 0, topNFunctions |-> <<>>,
             topN |-> <<>>, startIndexArg |-> 0, endIndexArg |-> 0,
             startIndex |-> 0, endIndex |-> 0, TopN |-> <<>>,
             sumSelfCPU |-> 0, sumTotalCPU |-> 0,
             totalSeconds |-> 0, selfCPUPerc |-> Undefined,
             totalCPUPerc |-> Undefined, impactEstimates |-> Undefined]
  /\ workpad = [id |-> "W0", page |-> 0]
  /\ assets = EmptyAssets
  /\ storage = {}
  /\ acts = <<>>
  /\ pending = <<>>
  /\ url = UserNav("home", NoId, FALSE, <<>>)
  /\ fr = FieldsIdle
  /\ asst = AssistantIdle

\* one iteration of `for (const [stackTraceID, count] of events)`: the next
\* entry of events, whose stack trace stackTraces holds or does not hold
NextEvent ==
  /\ tn.pc = "events"
  /\ Len(tn.events) < Len(StackTraceIDs)
  /\ \E count \in 1..MaxCount, found \in BOOLEAN, frames \in AllTraces :
       /\ found \/ frames = <<>>
       /\ LET stackTraceID == StackTraceIDs[Len(tn.events) + 1]
              scaledCount  == ScaledCount(count, tn.samplingRate)
              stackTrace   == IF found THEN frames ELSE emptyStackTrace
          IN  tn' = [tn EXCEPT
                !.events = Append(@, [stackTraceID |-> stackTraceID, count |-> count]),
                !.stackTraces = Append(@, [found |-> found, frames |-> frames]),
                !.totalCount = @ + scaledCount,
                !.topNFunctions = EventStep(@, stackTrace, scaledCount)]
  /\ UNCHANGED <<routeVars, fr, asst>>

\* after the loop: the entries are sorted
Sort ==
  /\ tn.pc = "events"
  /\ tn' = [tn EXCEPT !.pc = "sorted", !.topN = SortTopN(tn.topNFunctions)]
  /\ UNCHANGED <<routeVars, fr, asst>>

\* the indices are clamped to the length of the sorted list. events,
\* stackTraces and the map are not read after the loop and the sort: from
\* here on the state keeps the sorted list, the locals and the result.
Paginate ==
  /\ tn.pc = "sorted"
  /\ \E startIndex \in 0..MaxIndex, endIndex \in 0..MaxIndex :
       tn' = [tn EXCEPT
          !.pc = "sliced",
          !.events = <<>>, !.stackTraces = <<>>, !.topNFunctions = <<>>,
          !.startIndexArg = startIndex, !.endIndexArg = endIndex,
          !.startIndex = ClampIndex(startIndex, Len(tn.topN)),
          !.endIndex = ClampIndex(endIndex, Len(tn.topN))]
  /\ UNCHANGED <<routeVars, fr, asst>>

\* the rest: slice, build the rows with their percentages and impact
\* estimates, sum up and return (TotalCount is totalCount, SamplingRate is
\* samplingRate)
MapAndReturn ==
  /\ tn.pc = "sliced"
  /\ \E totalSeconds \in TotalSecondsValues :
       LET rows == MapRows(Slice(tn.topN, tn.startIndex, tn.endIndex),
                           tn.totalCount, totalSeconds)
           sumSelfCPU  == SumBy(rows, "CountExclusive")
           sumTotalCPU == SumBy(rows, "CountInclusive")
       IN  tn' = [tn EXCEPT
             !.pc = "done",
             !.totalSeconds = totalSeconds, !.TopN = rows,
             !.sumSelfCPU = sumSelfCPU,
             !.sumTotalCPU = sumTotalCPU,
             !.selfCPUPerc = Percent(sumSelfCPU, tn.totalCount),
             !.totalCPUPerc = Percent(sumTotalCPU, tn.totalCount),
             !.impactEstimates = ImpactEstimates(sumSelfCPU, sumTotalCPU,
                                                 tn.totalCount, totalSeconds)]
  /\ UNCHANGED <<routeVars, fr, asst>>

NextTopN == NextEvent \/ Sort \/ Paginate \/ MapAndReturn

SpecTopN == InitTopN /\ [][NextTopN]_vars

(***************************************************************************)
(*                   Properties of createTopNFunctions                     *)
(***************************************************************************)
EventIds == 1..Len(tn.events)

\* the stack trace event k was counted with
TraceOf(k) ==
  IF tn.stackTraces[k].found THEN tn.stackTraces[k].frames ELSE <<>>

\* the frame groups of the positions of a stack trace
GroupsOf(frames) == {FrameGroupOf(frames[p]) : p \in 1..Len(frames)}

\* the raw count of event k times 1/samplingRate
Scaled(k) == (tn.events[k].count * tn.samplingRate.den) \div tn.samplingRate.num

RECURSIVE SumScaled(_)
SumScaled(ks) ==
  IF ks = {} THEN 0
  ELSE LET k == CHOOSE x \in ks : TRUE IN Scaled(k) + SumScaled(ks \ {k})

RECURSIVE SumRaw(_)
SumRaw(ks) ==
  IF ks = {} THEN 0
  ELSE LET k == CHOOSE x \in ks : TRUE IN tn.events[k].count + SumRaw(ks \ {k})

\* the events whose stack trace ends in frame group g
LeafEvents(g) ==
  {k \in EventIds : TraceOf(k) # <<>> /\ FrameGroupOf(Last(TraceOf(k))) = g}

\* the events whose stack trace holds frame group g at some position
EventsWith(g) == {k \in EventIds : g \in GroupsOf(TraceOf(k))}

Entries == {tn.topNFunctions[k] : k \in 1..Len(tn.topNFunctions)}

EntryOf(f) == CHOOSE e \in Entries : e.FrameGroupID = FrameGroupOf(f)

\* the states of the loop over events and the state after it, in which the
\* events read so far and the map of frame groups are at hand
InLoop == tn.pc \in {"events", "sorted"}

\* C6: the scaled count of every event is added to the CountExclusive of the
\* frame group at the last index of its stack trace and of no other, so the
\* CountExclusive of a frame group is the sum of the scaled counts of the
\* events whose trace ends in it.
C6_ExclusiveOnlyForLeaf ==
  InLoop =>
    /\ \A e \in Entries : e.CountExclusive = SumScaled(LeafEvents(e.FrameGroupID))
    /\ \A k \in EventIds :
         TraceOf(k) # <<>> =>
           \E e \in Entries : e.FrameGroupID = FrameGroupOf(Last(TraceOf(k)))

\* one event with trace [A, B, C]: the full count for C alone
C6_Witness ==
  /\ tn.pc = "sorted"
  /\ tn.samplingRate = [num |-> 1, den |-> 1]
  /\ Len(tn.events) = 1
  /\ tn.events[1].count = MaxCount
  /\ TraceOf(1) = <<FrameA, FrameB, FrameC>>
  /\ tn.totalCount = MaxCount
  /\ \A f \in FrameUniverse : EntryOf(f).CountInclusive = MaxCount
  /\ EntryOf(FrameC).CountExclusive = MaxCount
  /\ EntryOf(FrameA).CountExclusive = 0
  /\ EntryOf(FrameB).CountExclusive = 0

\* C7: an event adds its scaled count to the CountInclusive of a frame group
\* once, however many positions of its trace are of that group, so the
\* CountInclusive of a frame group is the sum of the scaled counts of the
\* events whose trace holds the group.
C7_InclusiveOncePerEvent ==
  InLoop =>
    /\ \A e \in Entries : e.CountInclusive = SumScaled(EventsWith(e.FrameGroupID))
    /\ \A k \in EventIds : \A g \in GroupsOf(TraceOf(k)) :
         \E e \in Entries : e.FrameGroupID = g

\* one event with trace [A, A, B]: A is counted once
C7_Witness ==
  /\ tn.pc = "sorted"
  /\ Len(tn.events) = 1
  /\ TraceOf(1) = <<FrameA, FrameA, FrameB>>
  /\ EntryOf(FrameA).CountInclusive = Scaled(1)
  /\ Scaled(1) = 2 * MaxCount

TopNIds(list) == [k \in 1..Len(list) |-> list[k].FrameGroupID]

TopNCounts(list) ==
  [k \in 1..Len(list) |->
     <<list[k].FrameGroupID, list[k].CountExclusive, list[k].CountInclusive>>]

\* the sorted list createTopNFunctions builds when events iterates in the
\* order perm
SortedUnder(perm) ==
  SortTopN(AggregateEvents([k \in EventIds |-> tn.events[perm[k]]],
                           [k \in EventIds |-> tn.stackTraces[perm[k]]],
                           tn.samplingRate))

\* C8: TopN before pagination is in descending order of CountExclusive,
\* entries of equal CountExclusive in descending order of FrameGroupID, and the
\* list is the same for every iteration order of events.
C8_SortOrder ==
  tn.pc = "sorted" =>
    /\ \A i, j \in 1..Len(tn.topN) :
         i < j =>
           \/ tn.topN[i].CountExclusive > tn.topN[j].CountExclusive
           \/ /\ tn.topN[i].CountExclusive = tn.topN[j].CountExclusive
              /\ localeCompare(tn.topN[i].FrameGroupID, tn.topN[j].FrameGroupID) > 0
    /\ Len(tn.topN) = Len(tn.topNFunctions)
    /\ \A perm \in Permutations(EventIds) :
         TopNCounts(SortedUnder(perm)) = TopNCounts(tn.topN)

\* two events, two frame groups of equal CountExclusive that the map holds in
\* ascending order of their ids
C8_Witness ==
  /\ tn.pc = "sorted"
  /\ Len(tn.events) = 2
  /\ \E i, j \in 1..Len(tn.topNFunctions) :
       /\ i < j
       /\ tn.topNFunctions[i].CountExclusive = tn.topNFunctions[j].CountExclusive
       /\ tn.topNFunctions[i].CountExclusive > 0
       /\ localeCompare(tn.topNFunctions[i].FrameGroupID,
                        tn.topNFunctions[j].FrameGroupID) < 0

Min(a, b) == IF a < b THEN a ELSE b

\* C9: startIndex and endIndex are reduced to the number of frame groups when
\* they exceed it, the returned TopN is the slice [startIndex, endIndex) of the
\* sorted list (empty when both exceed the number of groups), and the k-th
\* returned row has Rank k.
C9_Pagination ==
  tn.pc = "done" =>
    LET n == Len(tn.topN) IN
    /\ tn.startIndex = Min(tn.startIndexArg, n)
    /\ tn.endIndex = Min(tn.endIndexArg, n)
    /\ Len(tn.TopN) = IF tn.endIndex > tn.startIndex
                        THEN tn.endIndex - tn.startIndex ELSE 0
    /\ \A k \in 1..Len(tn.TopN) :
         /\ tn.TopN[k].Rank = k
         /\ tn.TopN[k].Id = tn.topN[tn.startIndex + k].FrameGroupID
         /\ tn.TopN[k].CountExclusive = tn.topN[tn.startIndex + k].CountExclusive
         /\ tn.TopN[k].CountInclusive = tn.topN[tn.startIndex + k].CountInclusive
    /\ (tn.startIndexArg > n /\ tn.endIndexArg > n) => tn.TopN = <<>>

\* a page that starts behind the first entry and asks for more than there is
C9_Witness ==
  /\ tn.pc = "done"
  /\ tn.startIndexArg = 1
  /\ tn.endIndexArg > Len(tn.topN)
  /\ Len(tn.TopN) = 1
  /\ tn.TopN[1].Rank = 1
  /\ tn.TopN[1].Id = tn.topN[2].FrameGroupID

\* C10: every raw count is multiplied by 1/samplingRate before it is added:
\* TotalCount is the sum of the raw counts times 1/samplingRate, and so are
\* the CountInclusive and CountExclusive of every frame group over the events
\* that count for it.
C10_Scaling ==
  InLoop =>
    /\ tn.totalCount * tn.samplingRate.num = tn.samplingRate.den * SumRaw(EventIds)
    /\ \A e \in Entries :
         /\ e.CountInclusive * tn.samplingRate.num
              = tn.samplingRate.den * SumRaw(EventsWith(e.FrameGroupID))
         /\ e.CountExclusive * tn.samplingRate.num
              = tn.samplingRate.den * SumRaw(LeafEvents(e.FrameGroupID))

\* one event of the largest count at samplingRate 1/2 counts twice
C10_Witness ==
  /\ tn.pc = "sorted"
  /\ tn.samplingRate = [num |-> 1, den |-> 2]
  /\ Len(tn.events) = 1
  /\ tn.events[1].count = MaxCount
  /\ TraceOf(1) = <<FrameA>>
  /\ tn.totalCount = 2 * MaxCount
  /\ EntryOf(FrameA).CountInclusive = 2 * MaxCount
  /\ EntryOf(FrameA).CountExclusive = 2 * MaxCount

\* a percentage p is 100 * count / total (as exact values; 0 / 0 is NaN)
IsPercentOf(p, count, total) ==
  IF total = 0
    THEN IF count = 0 THEN p.kind = "NaN" ELSE p.kind = "Infinity"
    ELSE /\ p.kind = "finite"
         /\ p.den > 0
         /\ p.num * total = 100 * count * p.den

\* the sum of a field over the returned rows
RowSum(field) ==
  LET S[k \in 0..Len(tn.TopN)] ==
        IF k = 0 THEN 0 ELSE S[k - 1] + tn.TopN[k][field]
  IN  S[Len(tn.TopN)]

\* the sum of a field over all frame groups
GroupSum(field) ==
  LET S[k \in 0..Len(tn.topN)] ==
        IF k = 0 THEN 0 ELSE S[k - 1] + tn.topN[k][field]
  IN  S[Len(tn.topN)]

\* C11: in the result, selfCPUPerc of a row is 100 * CountExclusive /
\* TotalCount and totalCPUPerc is 100 * CountInclusive / TotalCount; the
\* top-level selfCPUPerc and totalCPUPerc are 100 * the sum of CountExclusive
\* (CountInclusive) over the returned rows / TotalCount.
C11_Percentages ==
  tn.pc = "done" =>
    /\ \A k \in 1..Len(tn.TopN) :
         /\ IsPercentOf(tn.TopN[k].selfCPUPerc, tn.TopN[k].CountExclusive,
                        tn.totalCount)
         /\ IsPercentOf(tn.TopN[k].totalCPUPerc, tn.TopN[k].CountInclusive,
                        tn.totalCount)
    /\ IsPercentOf(tn.selfCPUPerc, RowSum("CountExclusive"), tn.totalCount)
    /\ IsPercentOf(tn.totalCPUPerc, RowSum("CountInclusive"), tn.totalCount)

\* a page of one row out of two frame groups with exclusive counts: the row's
\* share is a third, and the top-level share is the row's, not the whole
C11_Witness ==
  /\ tn.pc = "done"
  /\ tn.totalCount = 3
  /\ Len(tn.topN) = 2
  /\ Len(tn.TopN) = 1
  /\ tn.TopN[1].CountExclusive = 1
  /\ tn.TopN[1].selfCPUPerc = [kind |-> "finite", num |-> 100, den |-> 3]
  /\ tn.selfCPUPerc = tn.TopN[1].selfCPUPerc
  /\ GroupSum("CountExclusive") = 3
  /\ RowSum("CountExclusive") = 1

\* C12: in the result, when totalSeconds <= 0 no returned row and not the
\* result itself has impactEstimates; when totalSeconds > 0 every returned
\* row and the result itself have them.
C12_ImpactEstimatesGate ==
  tn.pc = "done" =>
    IF tn.totalSeconds <= 0
      THEN /\ \A k \in 1..Len(tn.TopN) : tn.TopN[k].impactEstimates.kind = "undefined"
           /\ tn.impactEstimates.kind = "undefined"
      ELSE /\ \A k \in 1..Len(tn.TopN) :
                tn.TopN[k].impactEstimates.kind = "impactEstimates"
           /\ tn.impactEstimates.kind = "impactEstimates"

\* a result of two rows computed for totalSeconds = 0
C12_Witness ==
  /\ tn.pc = "done"
  /\ tn.totalSeconds = 0
  /\ Len(tn.TopN) = 2
  /\ tn.TopN[1].impactEstimates = Undefined
  /\ tn.TopN[2].impactEstimates = Undefined
  /\ tn.impactEstimates = Undefined

\* the step of the loop that reads an event whose stack trace is missing
NotFoundStep ==
  /\ tn.pc = "events"
  /\ tn'.pc = "events"
  /\ Len(tn'.events) = Len(tn.events) + 1
  /\ ~tn'.stackTraces[Len(tn'.stackTraces)].found

\* the frame group id of a position, a missing stackFrames or executables
\* entry being replaced by the empty record
PlaceholderGroupID(f) ==
  createFrameGroupID(
    f.FileID, f.AddressOrLine,
    IF f.FileID \in DOMAIN executables
      THEN executables[f.FileID].FileName ELSE emptyExecutable.FileName,
    IF f.FrameID \in DOMAIN stackFrames
      THEN stackFrames[f.FrameID].FileName ELSE emptyStackFrame.FileName,
    IF f.FrameID \in DOMAIN stackFrames
      THEN stackFrames[f.FrameID].FunctionName ELSE emptyStackFrame.FunctionName)

\* every position of every trace read so far is counted in the frame group
\* of its placeholder id
PlaceholderGroups ==
  InLoop =>
    \A k \in EventIds : \A p \in 1..Len(TraceOf(k)) :
      \E e \in Entries :
        /\ e.FrameGroupID = PlaceholderGroupID(TraceOf(k)[p])
        /\ e.CountInclusive >= Scaled(k)
        /\ p = Len(TraceOf(k)) => e.CountExclusive >= Scaled(k)

\* C13: a missing lookup is no failure. An event whose stackTraceID is not
\* in stackTraces adds its scaled count to TotalCount and leaves the frame
\* groups as they are (none changed, none created); a frame whose ids are not
\* in stackFrames or executables is grouped and counted with the empty
\* record in place of the missing one.
C13_MissingLookups ==
  [][ /\ NotFoundStep =>
           /\ tn'.topNFunctions = tn.topNFunctions
           /\ tn'.totalCount =
                tn.totalCount
                  + (tn'.events[Len(tn'.events)].count * tn.samplingRate.den)
                      \div tn.samplingRate.num
      /\ PlaceholderGroups' ]_vars

\* an event with a trace through the unknown frame, then an event without a
\* stack trace
C13_Witness ==
  /\ tn.pc = "events"
  /\ tn.samplingRate = [num |-> 1, den |-> 2]
  /\ Len(tn.events) = 2
  /\ TraceOf(1) = <<FrameA, FrameC>>
  /\ ~tn.stackTraces[2].found
  /\ tn.totalCount = 2 * (tn.events[1].count + tn.events[2].count)
  /\ Len(tn.topNFunctions) = 2
  /\ EntryOf(FrameC).FrameGroupID = <<"y", ";", "1", ";", ";", ";">>
  /\ EntryOf(FrameC).CountExclusive = 2 * tn.events[1].count

\* the events whose stack trace is missing or has no frames
EventsWithoutFrames == {k \in EventIds : TraceOf(k) = <<>>}

\* the sum of CountExclusive over the frame groups of the map
SumOfExclusive ==
  LET S[k \in 0..Len(tn.topNFunctions)] ==
        IF k = 0 THEN 0 ELSE S[k - 1] + tn.topNFunctions[k].CountExclusive
  IN  S[Len(tn.topNFunctions)]

\* C28: every frame group has 0 <= CountExclusive <= CountInclusive <=
\* TotalCount, and the CountExclusive of all frame groups add up to
\* TotalCount less the scaled counts of the events whose stack trace is
\* missing or has no frames.
C28_CountBounds ==
  InLoop =>
    /\ \A e \in Entries :
         /\ 0 <= e.CountExclusive
         /\ e.CountExclusive <= e.CountInclusive
         /\ e.CountInclusive <= tn.totalCount
    /\ SumOfExclusive = tn.totalCount - SumScaled(EventsWithoutFrames)

\* an event without stack trace and an event with trace [A, A, B]: A has no
\* exclusive count, B has the event's, and the total is larger than both
C28_Witness ==
  /\ tn.pc = "sorted"
  /\ Len(tn.events) = 2
  /\ ~tn.stackTraces[1].found
  /\ TraceOf(2) = <<FrameA, FrameA, FrameB>>
  /\ EntryOf(FrameA).CountExclusive = 0
  /\ EntryOf(FrameA).CountInclusive = Scaled(2)
  /\ EntryOf(FrameB).CountExclusive = Scaled(2)
  /\ SumOfExclusive = Scaled(2)
  /\ tn.totalCount = Scaled(1) + Scaled(2)

(***************************************************************************)
(*                     POST /api/watcher/fields                            *)
(***************************************************************************)
MaxRequests == 2     \* requests that reach the handler

\* the route actions of the workpad app have not run
RoutesIdle ==
  /\ workpad = [id |-> "W0", page |-> 0]
  /\ assets = EmptyAssets
  /\ storage = {}
  /\ acts = <<>>
  /\ pending = <<>>
  /\ url = UserNav("home", NoId, FALSE, <<>>)

\* request.body.indexes
IndexesValues == { <<>>, <<"logs-*">> }

\* the names of the fields of the cluster, in the order of their names
FieldNames == <<"agent.id", "host.name">>

\* what the field-capabilities call resolves with: the capabilities of some
\* fields, a body without a fields property, or the body of a 404 that the
\* call was told to ignore
FieldCapsResponses ==
  { [status |-> 200, hasFields |-> TRUE, fields |-> fs] :
      fs \in SUBSET {FieldNames[k] : k \in 1..Len(FieldNames)} }
    \cup { [status |-> 200, hasFields |-> FALSE, fields |-> {}],
           [status |-> 404, hasFields |-> FALSE, fields |-> {}] }

\* what can be thrown: errors of the search client and other errors
Errors ==
  { [type |-> "EsError", statusCode |-> 503, message |-> "cluster unavailable"],
    [type |-> "EsError", statusCode |-> 400, message |-> "bad request"],
    [type |-> "Boom", statusCode |-> 400, message |-> "no fields property"],
    [type |-> "TypeError", statusCode |-> 0, message |-> "not a function"] }

NoError == [type |-> "none", statusCode |-> 0, message |-> ""]

NoResponse == [status |-> 0, hasFields |-> FALSE, fields |-> {}]

\* lib.isEsError
isEsError(e) == e.type = "EsError"

\* the params fetchFields hands to callAsCurrentUser('fieldCaps', params)
fetchFields(indexes) ==
  [index |-> indexes, fields |-> <<"*">>, ignoreUnavailable |-> TRUE,
   allowNoIndices |-> TRUE, ignore |-> {404}]

\* Fields.fromUpstreamJson: the model of the fields of json.fields, ordered by
\* name; a json without a fields property is rejected with an error that is
\* not of the search client
FieldsFromUpstreamJson(json) ==
  IF json.hasFields
    THEN [threw |-> FALSE, error |-> NoError,
          fields |-> SelectSeq(FieldNames, LAMBDA n : n \in json.fields)]
    ELSE [threw |-> TRUE,
          error |-> [type |-> "Boom", statusCode |-> 400,
                     message |-> "no fields property"],
          fields |-> <<>>]

\* fields.downstreamJson
downstreamJson(fields) == [fields |-> fields.fields]

\* mutant: the response is handed to the Fields model as it is
UpstreamJson_Raw(fieldsResponse) == fieldsResponse

\* fieldsResponse.status === 404 ? { fields: [] } : fieldsResponse
UpstreamJson(fieldsResponse) ==
  IF fieldsResponse.status = 404
    THEN [status |-> 0, hasFields |-> TRUE, fields |-> {}]
    ELSE fieldsResponse

\* how a call of the handler ends
ResponseOk(body) ==
  [kind |-> "ok", statusCode |-> 200, body |-> body, error |-> NoError]

ResponseCustomError(statusCode, body) ==
  [kind |-> "customError", statusCode |-> statusCode, body |-> body,
   error |-> NoError]

Thrown(e) ==
  [kind |-> "throw", statusCode |-> 0, body |-> [message |-> ""], error |-> e]

\* mutant: the status code of the error is replaced by 500
Catch_InternalError(e) ==
  IF isEsError(e)
    THEN <<ResponseCustomError(500, [message |-> e.message])>>
    ELSE <<Thrown(e)>>

\* mutant: every error is answered with a custom error response
Catch_Everything(e) ==
  <<ResponseCustomError(e.statusCode, [message |-> e.message])>>

\* the catch block: what the handler ends with for the error e
Catch(e) ==
  IF isEsError(e)
    THEN <<ResponseCustomError(e.statusCode, [message |-> e.message])>>
    ELSE <<Thrown(e)>>

\* the try block after the await, when nothing but Fields.fromUpstreamJson
\* can throw
AfterFieldCaps(fieldsResponse) ==
  LET json   == UpstreamJson(fieldsResponse)
      fields == FieldsFromUpstreamJson(json)
  IN  IF fields.threw THEN Catch(fields.error)
      ELSE <<ResponseOk(downstreamJson(fields))>>

\* a request passes the license guard and the handler runs up to the await
HandleRequest ==
  /\ Len(fr) < MaxRequests
  /\ \E indexes \in IndexesValues :
       fr' = Append(fr, [indexes |-> indexes, pc |-> "fieldCaps",
                         params |-> fetchFields(indexes),
                         fieldsResponse |-> NoResponse, caught |-> NoError,
                         outcomes |-> <<>>])
  /\ UNCHANGED <<routeVars, tn, asst>>

\* the field-capabilities call of request i resolves; a 404 is a response
\* only because the call was told to ignore it
FieldCapsResolve ==
  /\ \E i \in 1..Len(fr), resp \in FieldCapsResponses :
       /\ fr[i].pc = "fieldCaps"
       /\ resp.status = 404 => 404 \in fr[i].params.ignore
       /\ fr' = [fr EXCEPT ![i].pc = "done",
                           ![i].fieldsResponse = resp,
                           ![i].caught =
                              FieldsFromUpstreamJson(UpstreamJson(resp)).error,
                           ![i].outcomes = @ \o AfterFieldCaps(resp)]
  /\ UNCHANGED <<routeVars, tn, asst>>

\* the call resolves with a body of the cluster and the construction of the
\* Fields model from it throws (the construction from the literal
\* { fields: [] } does not)
FieldsThrow ==
  /\ \E i \in 1..Len(fr), resp \in FieldCapsResponses, e \in Errors :
       /\ fr[i].pc = "fieldCaps"
       /\ resp.status # 404
       /\ fr' = [fr EXCEPT ![i].pc = "done",
                           ![i].fieldsResponse = resp,
                           ![i].caught = e,
                           ![i].outcomes = @ \o Catch(e)]
  /\ UNCHANGED <<routeVars, tn, asst>>

\* the field-capabilities call of request i throws
FieldCapsReject ==
  /\ \E i \in 1..Len(fr), e \in Errors :
       /\ fr[i].pc = "fieldCaps"
       /\ fr' = [fr EXCEPT ![i].pc = "done",
                           ![i].caught = e,
                           ![i].outcomes = @ \o Catch(e)]
  /\ UNCHANGED <<routeVars, tn, asst>>

InitFields ==
  /\ fr = FieldsIdle
  /\ RoutesIdle
  /\ tn = TopNIdle
  /\ asst = AssistantIdle

NextFields == HandleRequest \/ FieldCapsResolve \/ FieldsThrow \/ FieldCapsReject

SpecFields == InitFields /\ [][NextFields]_vars

(***************************************************************************)
(*                 Properties of POST /api/watcher/fields                  *)
(***************************************************************************)
\* the requests whose handler has ended
Ended == {i \in 1..Len(fr) : fr[i].pc = "done"}

\* C14: when the field-capabilities call returns a response of status 404,
\* the handler answers with response.ok whose body is the downstream JSON of
\* the Fields model of { fields: [] }, and with no error response.
C14_NotFoundIsEmpty ==
  \A i \in Ended :
    fr[i].fieldsResponse.status = 404 =>
      /\ fr[i].outcomes = <<ResponseOk([fields |-> <<>>])>>
      /\ \A k \in 1..Len(fr[i].outcomes) : fr[i].outcomes[k].kind = "ok"

\* a request answered 200 with no fields for a 404 of the cluster
C14_Witness ==
  \E i \in Ended :
    /\ fr[i].fieldsResponse.status = 404
    /\ fr[i].caught = NoError
    /\ Len(fr[i].outcomes) = 1
    /\ fr[i].outcomes[1].kind = "ok"
    /\ fr[i].outcomes[1].statusCode = 200
    /\ fr[i].outcomes[1].body.fields = <<>>

\* C15: when the field-capabilities call or the construction of the Fields
\* model throws an error that isEsError recognizes, the handler answers with
\* a custom error response of the error's statusCode and the body
\* { message: the error's message }, and throws nothing.
C15_EsErrorTranslated ==
  \A i \in Ended :
    fr[i].caught.type = "EsError" =>
      /\ Len(fr[i].outcomes) = 1
      /\ fr[i].outcomes[1].kind = "customError"
      /\ fr[i].outcomes[1].statusCode = fr[i].caught.statusCode
      /\ fr[i].outcomes[1].body = [message |-> fr[i].caught.message]

\* 503 "cluster unavailable" thrown by the call, and by the construction
C15_Witness ==
  /\ \E i \in Ended :
       /\ fr[i].fieldsResponse = NoResponse
       /\ fr[i].caught.type = "EsError"
       /\ fr[i].outcomes[1].kind = "customError"
       /\ fr[i].outcomes[1].statusCode = 503
       /\ fr[i].outcomes[1].body = [message |-> "cluster unavailable"]
  /\ \E i \in Ended :
       /\ fr[i].fieldsResponse # NoResponse
       /\ fr[i].caught.type = "EsError"
       /\ fr[i].outcomes[1].kind = "customError"
       /\ fr[i].outcomes[1].statusCode = 503

\* C16: an error that isEsError does not recognize is thrown on as it is, with
\* no 200 and no custom error response for that request; and every request
\* ends in exactly one of: 200, custom error response, thrown error.
C16_OtherErrorsPropagate ==
  \A i \in 1..Len(fr) :
    /\ i \in Ended =>
         /\ Len(fr[i].outcomes) = 1
         /\ fr[i].outcomes[1].kind \in {"ok", "customError", "throw"}
         /\ fr[i].outcomes[1].kind = "ok" => fr[i].outcomes[1].statusCode = 200
    /\ i \notin Ended => fr[i].outcomes = <<>>
    /\ (i \in Ended /\ fr[i].caught # NoError /\ fr[i].caught.type # "EsError") =>
         fr[i].outcomes = <<Thrown(fr[i].caught)>>

\* one request ended in each of the three ways is not possible with two
\* requests: a thrown TypeError beside a request answered 200
C16_Witness ==
  /\ \E i \in Ended :
       /\ fr[i].caught.type = "TypeError"
       /\ fr[i].outcomes = <<Thrown(fr[i].caught)>>
  /\ \E i \in Ended : fr[i].outcomes[1].kind = "ok"

(***************************************************************************)
(*                          Assistant panel                                *)
(***************************************************************************)
(* The component is a function of its props, of the assistant context      *)
(* (conversations, promptContexts), of the connectors query and of its     *)
(* hook state. Every handler and every resolution of a promise is one      *)
(* action; the render that follows its state updates is part of the        *)
(* action, so every state of a mounted panel is a rendered state. The      *)
(* effects of a render run after it, as one action of their own            *)
(* (RunEffects), before anything else happens.                             *)
(***************************************************************************)
MaxSends == 2        \* calls of handleSendMessage

WELCOME_CONVERSATION_TITLE == "Welcome"

\* the keys of the conversations of the assistant context
ConversationIds == {WELCOME_CONVERSATION_TITLE, "Alerts"}

\* the ids a connector can have; a conversation without one has NoConnector
ConnectorIds == {"openai"}

NoConnector == "undefined"

\* the connector ids of the conversations of the context: the welcome
\* conversation has none
ApiConfigs ==
  { [c \in ConversationIds |->
       IF c = WELCOME_CONVERSATION_TITLE THEN NoConnector ELSE k] :
     k \in ConnectorIds \cup {NoConnector} }

\* the messages a conversation of the context can hold when the panel is
\* mounted: none, or what an earlier panel left in it
StoredMessages ==
  { <<>>,
    << [role |-> "user", content |-> "earlier prompt", contexts |-> {}],
       [role |-> "assistant", content |-> "earlier reply", contexts |-> {}] >> }

\* allSystemPrompts of the assistant context, by id, and the system prompt
\* each conversation of the context has for its default
AllSystemPromptIds == {"default system prompt", "alerts system prompt"}

DefaultSystemPromptIds ==
  [c \in ConversationIds |->
     IF c = WELCOME_CONVERSATION_TITLE THEN "default system prompt"
                                       ELSE "alerts system prompt"]

\* excludeFromLastConversationStorage of the conversations of the context:
\* the welcome conversation is not to be remembered as the last one used
ExcludedFromLastConversationStorage == {WELCOME_CONVERSATION_TITLE}

\* the conversationId prop, when it is not given
NoConversationId == "undefined"

\* promptContexts of the assistant context: one registered provider, with a
\* suggested user prompt
PromptContextIds == {"alert"}

SuggestedUserPrompt == "Summarize this"

\* the promptContextId prop: its default '' or the registered provider
PromptContextIdValues == {""} \cup PromptContextIds

\* userPrompt is null until something sets it
Null == "null"

\* what the user types into the prompt
TypedPrompts == {"hello"}

\* the connectors query before it has data
NoConnectors == [loaded |-> FALSE, ids |-> {}]

\* what useLoadConnectors can load
ConnectorLists == { [loaded |-> TRUE, ids |-> ids] : ids \in SUBSET ConnectorIds }

\* ---- derived values of a render
\* conversations[selectedConversationId]
currentConversation(a) == a.conversations[a.selectedConversationId]

\* getDefaultSystemPrompt({ allSystemPrompts, conversation })?.id
getDefaultSystemPrompt(conversation) == conversation.defaultSystemPromptId

isWelcomeSetup(a) ==
  IF \E c \in DOMAIN a.conversations : a.conversations[c].apiConfig # NoConnector
    THEN FALSE
    ELSE Cardinality(a.connectors.ids) = 0

isDisabled(a) == isWelcomeSetup(a) \/ ~a.isAssistantEnabled

isSendingDisabled(a) == isDisabled(a) \/ a.showMissingConnectorCallout

\* ---- the conversation store (useConversation) and the helpers
\* getCombinedMessage: the user message made of the prompt text and the
\* selected prompt contexts. The text of a message is named after the call
\* of handleSendMessage it belongs to, which tells the messages of two calls
\* apart.
getCombinedMessage(promptText, selectedPromptContexts) ==
  [role |-> "user", content |-> promptText, contexts |-> selectedPromptContexts]

\* getMessageFromRawResponse
getMessageFromRawResponse(rawResponse) ==
  [role |-> "assistant", content |-> rawResponse, contexts |-> {}]

\* the prompt text of the n-th call of handleSendMessage and the raw response
\* of the backend to it
PromptTexts == <<"prompt 1", "prompt 2", "prompt 3">>

RawResponses == <<"reply 1", "reply 2", "reply 3">>

\* appendMessage: the messages of the conversation after the append, which is
\* also what it returns
appendMessage(conversations, conversationId, message) ==
  [conversations EXCEPT ![conversationId].messages = Append(@, message)]

clearConversation(conversations, conversationId) ==
  [conversations EXCEPT ![conversationId].messages = <<>>]

\* ---- what one call of handleSendMessage does, in order
Effect(op, conversationId, messages, apiConfig) ==
  [op |-> op, conversationId |-> conversationId, messages |-> messages,
   apiConfig |-> apiConfig]

\* mutant: the backend is called with the messages from before the append
AfterCombine_StaleMessages(send, before, updatedMessages) ==
  << Effect("appendMessage", send.conversationId, updatedMessages, NoConnector),
     Effect("setSelectedPromptContexts", send.conversationId, <<>>, NoConnector),
     Effect("setPromptTextPreview", send.conversationId, <<>>, NoConnector),
     Effect("sendMessages", send.conversationId, before, send.apiConfig) >>

\* from the resolution of getCombinedMessage to the await of sendMessages;
\* before and updatedMessages are the messages of the conversation before the
\* append and the list the append returns
AfterCombine(send, before, updatedMessages) ==
  << Effect("appendMessage", send.conversationId, updatedMessages, NoConnector),
     Effect("setSelectedPromptContexts", send.conversationId, <<>>, NoConnector),
     Effect("setPromptTextPreview", send.conversationId, <<>>, NoConnector),
     Effect("sendMessages", send.conversationId, updatedMessages, send.apiConfig) >>

\* the call of handleSendMessage(promptText) in the render of a: what its
\* closure holds, up to the await of getCombinedMessage
NewSend(a) ==
  [conversationId |-> a.selectedConversationId,
   apiConfig |-> currentConversation(a).apiConfig,
   promptText |-> PromptTexts[Len(a.sends) + 1],
   contexts |-> a.selectedPromptContexts,
   pc |-> "combine",
   effects |-> <<>>]

\* the sends whose backend call has been made and has not resolved
InFlight(a) == {i \in 1..Len(a.sends) : a.sends[i].pc = "send"}

\* ---- actions
\* what the state updates of an action lead to: a render, whose effects are
\* yet to run
Rendered(a) == [a EXCEPT !.effectsPending = TRUE]

Ready == asst.mounted /\ ~asst.effectsPending

AsstStep(a) ==
  /\ asst' = Rendered(a)
  /\ UNCHANGED <<routeVars, tn, fr>>

\* the first render of the panel, before the connectors query has data; the
\* conversationId prop and the last conversation of local storage name
\* conversations of the context, one of which holds messages of
\* storedMessages; those of excluded are flagged
\* excludeFromLastConversationStorage
FirstRenderOf(storedMessages, excluded) ==
  /\ \E enabled \in BOOLEAN,
        conversationId \in ConversationIds \cup {NoConversationId},
        last \in ConversationIds \cup {NoConversationId},
        promptContextId \in PromptContextIdValues,
        apiConfigs \in ApiConfigs,
        stored \in storedMessages :
       asst = [mounted |-> TRUE,
               isAssistantEnabled |-> enabled,
               conversationId |-> conversationId,
               promptContextId |-> promptContextId,
               conversations |->
                 [c \in ConversationIds |->
                    [id |-> c,
                     excludeFromLastConversationStorage |->
                       c \in excluded,
                     messages |-> IF c = WELCOME_CONVERSATION_TITLE
                                    THEN <<>> ELSE stored,
                     apiConfig |-> apiConfigs[c],
                     defaultSystemPromptId |-> DefaultSystemPromptIds[c]]],
               connectors |-> NoConnectors,
               localStorageLastConversationId |-> last,
               selectedConversationId |->
                 IF ~enabled THEN WELCOME_CONVERSATION_TITLE
                 ELSE IF conversationId # NoConversationId THEN conversationId
                 ELSE IF last # NoConversationId THEN last
                 ELSE WELCOME_CONVERSATION_TITLE,
               editingSystemPromptId |->
                 DefaultSystemPromptIds[
                   IF ~enabled THEN WELCOME_CONVERSATION_TITLE
                   ELSE IF conversationId # NoConversationId THEN conversationId
                   ELSE IF last # NoConversationId THEN last
                   ELSE WELCOME_CONVERSATION_TITLE],
               selectedPromptContexts |-> {},
               promptTextPreview |-> "",
               autoPopulatedOnce |-> FALSE,
               userPrompt |-> Null,
               showMissingConnectorCallout |-> FALSE,
               isLoading |-> FALSE,
               auto |-> [pc |-> "idle", clearedSinceStart |-> FALSE],
               sends |-> <<>>,
               effectsPending |-> TRUE]
  /\ RoutesIdle
  /\ tn = TopNIdle
  /\ fr = FieldsIdle

\* mutant: the effect without its one-shot flag
AutoPopulateEffect_NoFlag(a) ==
  IF Len(currentConversation(a).messages) # 0
       \/ a.conversationId # a.selectedConversationId
    THEN a
  ELSE IF a.promptContextId \notin PromptContextIds THEN a
  ELSE [a EXCEPT
          !.autoPopulatedOnce = TRUE,
          !.auto = IF a.promptContextId \notin a.selectedPromptContexts
                     THEN [pc |-> "pending", clearedSinceStart |-> FALSE]
                     ELSE @,
          !.userPrompt = SuggestedUserPrompt]

\* mutant: the effect without its return for a conversation that has
\* messages or is not the one of the conversationId prop
AutoPopulateEffect_AnyConversation(a) ==
  IF a.autoPopulatedOnce THEN a
  ELSE IF a.promptContextId \notin PromptContextIds THEN a
  ELSE [a EXCEPT
          !.autoPopulatedOnce = TRUE,
          !.auto = IF a.promptContextId \notin a.selectedPromptContexts
                     THEN [pc |-> "pending", clearedSinceStart |-> FALSE]
                     ELSE @,
          !.userPrompt = SuggestedUserPrompt]

\* the auto-populate effect
AutoPopulateEffect(a) ==
  IF Len(currentConversation(a).messages) # 0
       \/ a.conversationId # a.selectedConversationId
    THEN a
  ELSE IF a.autoPopulatedOnce THEN a
  ELSE IF a.promptContextId \notin PromptContextIds THEN a
  ELSE [a EXCEPT
          !.autoPopulatedOnce = TRUE,
          !.auto = IF a.promptContextId \notin a.selectedPromptContexts
                     THEN [pc |-> "pending", clearedSinceStart |-> FALSE]
                     ELSE @,
          !.userPrompt = SuggestedUserPrompt]

\* mutant: the effect records the conversation whatever its flag
LastConversationEffect_IgnoreFlag(a) ==
  IF a.connectors.loaded /\ Cardinality(a.connectors.ids) = 0
    THEN [a EXCEPT !.localStorageLastConversationId = WELCOME_CONVERSATION_TITLE]
  ELSE [a EXCEPT !.localStorageLastConversationId = currentConversation(a).id]

\* the last-conversation effect: setLastConversationId writes the local
\* storage the assistant context reads localStorageLastConversationId from
LastConversationEffect(a) ==
  IF a.connectors.loaded /\ Cardinality(a.connectors.ids) = 0
    THEN [a EXCEPT !.localStorageLastConversationId = WELCOME_CONVERSATION_TITLE]
  ELSE IF ~currentConversation(a).excludeFromLastConversationStorage
    THEN [a EXCEPT !.localStorageLastConversationId = currentConversation(a).id]
  ELSE a

\* the missing-connector effect
MissingConnectorEffect(a) ==
  LET connectorExists ==
        IF a.connectors.loaded
          THEN currentConversation(a).apiConfig \in a.connectors.ids
          ELSE FALSE
  IN  [a EXCEPT !.showMissingConnectorCallout = ~connectorExists]

\* the effects of the last render run; when they change the state the panel
\* renders again
RunEffects ==
  /\ asst.mounted /\ asst.effectsPending
  /\ LET a == MissingConnectorEffect(AutoPopulateEffect(
                LastConversationEffect(asst)))
     IN  asst' = [a EXCEPT !.effectsPending = (a # asst)]
  /\ UNCHANGED <<routeVars, tn, fr>>

\* the connectors query delivers a list
ConnectorsLoaded ==
  /\ Ready
  /\ \E list \in ConnectorLists :
       /\ list # asst.connectors
       /\ AsstStep([asst EXCEPT !.connectors = list])

\* handleOnConversationSelected, from the conversation selector
SelectConversation ==
  /\ Ready /\ ~isDisabled(asst)
  /\ \E cId \in ConversationIds :
       /\ cId # asst.selectedConversationId
       /\ AsstStep([asst EXCEPT
            !.selectedConversationId = cId,
            !.editingSystemPromptId =
               getDefaultSystemPrompt(asst.conversations[cId])])

\* setSelectedConversationId, as the settings button is given it
SettingsSelectConversation ==
  /\ Ready /\ ~isDisabled(asst)
  /\ \E cId \in ConversationIds :
       /\ cId # asst.selectedConversationId
       /\ AsstStep([asst EXCEPT !.selectedConversationId = cId])

\* handleOnSystemPromptSelectionChange, from the prompt editor, which is
\* shown while the conversation is empty or a context is selected
SystemPromptSelectionChange ==
  /\ Ready /\ ~isDisabled(asst)
  /\ \/ Len(currentConversation(asst).messages) = 0
     \/ asst.selectedPromptContexts # {}
  /\ \E systemPromptId \in AllSystemPromptIds :
       /\ systemPromptId # asst.editingSystemPromptId
       /\ AsstStep([asst EXCEPT !.editingSystemPromptId = systemPromptId])

\* handlePromptChange: the user edits the prompt
PromptChange ==
  /\ Ready /\ ~isSendingDisabled(asst)
  /\ \E prompt \in TypedPrompts :
       AsstStep([asst EXCEPT !.promptTextPreview = prompt, !.userPrompt = prompt])

\* onPromptSubmit of the prompt text area: handleSendMessage(value)
PromptSubmit ==
  /\ Ready /\ ~isSendingDisabled(asst)
  /\ Len(asst.sends) < MaxSends
  /\ AsstStep([asst EXCEPT !.sends = Append(@, NewSend(asst))])

\* handleButtonSendMessage: the submit button, which takes no click while it
\* shows the loading spinner
ButtonSendMessage ==
  /\ Ready /\ ~isSendingDisabled(asst) /\ ~asst.isLoading
  /\ Len(asst.sends) < MaxSends
  /\ AsstStep([asst EXCEPT !.sends = Append(@, NewSend(asst)),
                           !.userPrompt = ""])

\* getCombinedMessage resolves for send i: the user message is appended, the
\* selection and the preview are reset and sendMessages is called
CombineResolve ==
  /\ Ready
  /\ \E i \in 1..Len(asst.sends) :
       /\ asst.sends[i].pc = "combine"
       /\ LET send    == asst.sends[i]
              message == getCombinedMessage(send.promptText, send.contexts)
              convs   == appendMessage(asst.conversations, send.conversationId,
                                       message)
              updatedMessages == convs[send.conversationId].messages
          IN  AsstStep([asst EXCEPT
                !.conversations = convs,
                !.selectedPromptContexts = {},
                !.promptTextPreview = "",
                !.isLoading = TRUE,
                !.auto.clearedSinceStart = (@ \/ asst.auto.pc # "idle"),
                !.sends[i].pc = "send",
                !.sends[i].effects =
                   @ \o AfterCombine(send,
                          asst.conversations[send.conversationId].messages,
                          updatedMessages)])

\* mutant: the response goes to the conversation selected when it arrives
SendResolve_ToSelected ==
  /\ Ready
  /\ \E i \in 1..Len(asst.sends) :
       /\ asst.sends[i].pc = "send"
       /\ LET send  == asst.sends[i]
              convs == appendMessage(asst.conversations,
                                     asst.selectedConversationId,
                                     getMessageFromRawResponse(RawResponses[i]))
          IN  AsstStep([asst EXCEPT
                !.conversations = convs,
                !.isLoading = FALSE,
                !.sends[i].pc = "done",
                !.sends[i].effects =
                   Append(@, Effect("appendMessage", send.conversationId,
                                    convs[send.conversationId].messages,
                                    NoConnector))])

\* the backend call of send i resolves: the response is appended
SendResolve ==
  /\ Ready
  /\ \E i \in 1..Len(asst.sends) :
       /\ asst.sends[i].pc = "send"
       /\ LET send  == asst.sends[i]
              convs == appendMessage(asst.conversations, send.conversationId,
                                     getMessageFromRawResponse(RawResponses[i]))
          IN  AsstStep([asst EXCEPT
                !.conversations = convs,
                !.isLoading = FALSE,
                !.sends[i].pc = "done",
                !.sends[i].effects =
                   Append(@, Effect("appendMessage", send.conversationId,
                                    convs[send.conversationId].messages,
                                    NoConnector))])

\* handleOnChatCleared, from the clear button
ChatCleared ==
  /\ Ready /\ ~isSendingDisabled(asst)
  /\ AsstStep([asst EXCEPT
       !.promptTextPreview = "",
       !.userPrompt = "",
       !.selectedPromptContexts = {},
       !.auto.clearedSinceStart = (@ \/ asst.auto.pc # "idle"),
       !.conversations = clearConversation(@, asst.selectedConversationId),
       !.editingSystemPromptId =
          getDefaultSystemPrompt(asst.conversations[asst.selectedConversationId])])

\* getNewSelectedPromptContext resolves: the context is added to whatever
\* the selection is by now
AutoPopulateResolve ==
  /\ Ready
  /\ asst.auto.pc = "pending"
  /\ AsstStep([asst EXCEPT
       !.selectedPromptContexts = @ \cup {asst.promptContextId},
       !.auto.pc = "resolved"])

\* the prompt editor, shown while the conversation is empty or a context is
\* selected, hands setSelectedPromptContexts to the list of selected
\* contexts: the user removes one
RemoveContext ==
  /\ Ready /\ ~isDisabled(asst)
  /\ \/ Len(currentConversation(asst).messages) = 0
     \/ asst.selectedPromptContexts # {}
  /\ \E id \in asst.selectedPromptContexts :
       AsstStep([asst EXCEPT !.selectedPromptContexts = @ \ {id}])

\* a panel mounted on conversations that hold no messages yet and are all
\* remembered as the last one used
InitAssistant == FirstRenderOf({<<>>}, {})

\* the panel and its sends: every handler but the two that write nothing
\* but the editing system prompt id or leave it behind
NextAssistant ==
  \/ RunEffects
  \/ RemoveContext
  \/ ConnectorsLoaded
  \/ SelectConversation
  \/ PromptChange
  \/ PromptSubmit
  \/ ButtonSendMessage
  \/ CombineResolve
  \/ SendResolve
  \/ ChatCleared
  \/ AutoPopulateResolve

SpecAssistant == InitAssistant /\ [][NextAssistant]_vars

\* a panel mounted on conversations of which one may hold messages and the
\* welcome conversation is flagged
InitPanel == FirstRenderOf(StoredMessages, ExcludedFromLastConversationStorage)

\* the panel without its sends: every handler that is not part of
\* handleSendMessage
NextPanel ==
  \/ RunEffects
  \/ ConnectorsLoaded
  \/ SelectConversation
  \/ SettingsSelectConversation
  \/ SystemPromptSelectionChange
  \/ PromptChange
  \/ ChatCleared
  \/ RemoveContext
  \/ AutoPopulateResolve

SpecPanel == InitPanel /\ [][NextPanel]_vars

(***************************************************************************)
(*                   Properties of the Assistant panel                     *)
(***************************************************************************)
\* no conversation of the context has a connector id and the connector list
\* is empty or not loaded
WelcomeSetup ==
  /\ \A c \in ConversationIds : asst.conversations[c].apiConfig = NoConnector
  /\ (~asst.connectors.loaded \/ asst.connectors.ids = {})

\* the connector id of the current conversation is that of no loaded connector
ConnectorMissing ==
  ~(/\ asst.connectors.loaded
    /\ asst.conversations[asst.selectedConversationId].apiConfig
         \in asst.connectors.ids)

\* C17: in every rendered state, the first render and the render right after
\* a change of the connector list or of the current conversation included,
\* sending is disabled exactly when the panel is in welcome setup, or the
\* assistant is not enabled, or the connector of the current conversation is
\* missing.
C17_SendingDisabledIff ==
  asst.mounted =>
    (isSendingDisabled(asst) <=>
       (WelcomeSetup \/ ~asst.isAssistantEnabled \/ ConnectorMissing))

\* C18: while the backend call of one send has not resolved no second send
\* starts: at most one send is in flight.
C18_OneSendInFlight ==
  asst.mounted => Cardinality(InFlight(asst)) <= 1

LastOf(list) == list[Len(list)]

\* in this step send i passes from the await of getCombinedMessage to the
\* await of sendMessages
CombineStep(i) ==
  /\ i \in 1..Len(asst.sends)
  /\ asst.sends[i].pc = "combine"
  /\ asst'.sends[i].pc = "send"

\* in this step the backend call of send i resolves
ResolveStep(i) ==
  /\ i \in 1..Len(asst.sends)
  /\ asst.sends[i].pc = "send"
  /\ asst'.sends[i].pc = "done"

\* C19: one send appends the combined user message to the conversation that
\* was selected, then clears the selected prompt contexts and the preview,
\* then calls the backend with the list the append returned (it ends with the
\* new user message) and the apiConfig of the conversation; the response is
\* appended after the backend call has resolved, and once.
C19_SendOrder ==
  [][ \A i \in 1..MaxSends :
        LET conv == asst.sends[i].conversationId
            e    == asst'.sends[i].effects
        IN
        /\ CombineStep(i) =>
             /\ asst.sends[i].effects = <<>>
             /\ Len(e) = 4
             /\ e[1].op = "appendMessage"
             /\ e[1].conversationId = conv
             /\ e[1].messages = asst'.conversations[conv].messages
             /\ asst'.conversations[conv].messages =
                  Append(asst.conversations[conv].messages,
                         [role |-> "user", content |-> PromptTexts[i],
                          contexts |-> asst.sends[i].contexts])
             /\ e[2].op = "setSelectedPromptContexts"
             /\ asst'.selectedPromptContexts = {}
             /\ e[3].op = "setPromptTextPreview"
             /\ asst'.promptTextPreview = ""
             /\ e[4].op = "sendMessages"
             /\ e[4].messages = e[1].messages
             /\ LastOf(e[4].messages).content = PromptTexts[i]
             /\ e[4].apiConfig = asst.conversations[conv].apiConfig
        /\ ResolveStep(i) =>
             /\ Len(asst.sends[i].effects) = 4
             /\ Len(e) = 5
             /\ SubSeq(e, 1, 4) = asst.sends[i].effects
             /\ e[5].op = "appendMessage"
             /\ e[5].conversationId = conv
             /\ asst'.conversations[conv].messages =
                  Append(asst.conversations[conv].messages,
                         [role |-> "assistant", content |-> RawResponses[i],
                          contexts |-> {}])
        /\ (i \in 1..Len(asst.sends) /\ ~CombineStep(i) /\ ~ResolveStep(i)) =>
             e = asst.sends[i].effects
        /\ (i \in 1..Len(asst'.sends) /\ i \notin 1..Len(asst.sends)) =>
             e = <<>> ]_vars

\* a send that took the auto-populated context with it has ended: its five
\* steps are on record and the selection is empty
C19_Witness ==
  /\ asst.mounted
  /\ \E i \in 1..Len(asst.sends) :
       /\ asst.sends[i].pc = "done"
       /\ asst.sends[i].contexts = PromptContextIds
       /\ Len(asst.sends[i].effects) = 5
       /\ asst.sends[i].effects[4].op = "sendMessages"
       /\ Len(asst.sends[i].effects[4].messages) = 1
       /\ Len(asst.conversations[asst.sends[i].conversationId].messages) = 2
  /\ asst.selectedPromptContexts = {}

\* C20: the map of selected prompt contexts is empty after every successful
\* send and every clear-chat, also when an auto-population that started
\* before the send or the clear resolves after it: once a send or a
\* clear-chat has emptied the map after the auto-population started, the map
\* is empty.
C20_ContextsStayCleared ==
  asst.mounted =>
    (asst.auto.clearedSinceStart => asst.selectedPromptContexts = {})

\* in this step the context of the promptContextId prop is added to the map
\* of selected contexts
AttachStep ==
  /\ asst.promptContextId \notin asst.selectedPromptContexts
  /\ asst.promptContextId \in asst'.selectedPromptContexts

\* in this step the draft becomes the suggested user prompt
SuggestStep ==
  /\ asst.userPrompt # SuggestedUserPrompt
  /\ asst'.userPrompt = SuggestedUserPrompt

\* C21: the auto-population happens at most once per mounted panel: once the
\* effect has set autoPopulatedOnce the flag stays set, no step starts a
\* second resolution of the context or makes the draft the suggested prompt,
\* and the only step that attaches the context is the resolution of the one
\* call the effect made; after that resolution no step attaches it.
C21_AutoPopulateOnce ==
  [][ (asst.mounted /\ asst.autoPopulatedOnce) =>
        /\ asst'.autoPopulatedOnce
        /\ ~(asst.auto.pc # "pending" /\ asst'.auto.pc = "pending")
        /\ ~SuggestStep
        /\ AttachStep => (asst.auto.pc = "pending" /\ asst'.auto.pc = "resolved")
        /\ asst.auto.pc = "resolved" => asst'.auto.pc = "resolved" ]_vars

\* after the auto-population the user has removed the context and edited the
\* draft, and the panel shows the empty conversation of the conversationId
\* prop: all the effect asks for but the flag
C21_Witness ==
  /\ Ready
  /\ asst.autoPopulatedOnce
  /\ asst.auto.pc = "resolved"
  /\ ~asst.auto.clearedSinceStart
  /\ asst.promptContextId \in PromptContextIds
  /\ asst.promptContextId \notin asst.selectedPromptContexts
  /\ asst.userPrompt \in TypedPrompts
  /\ asst.conversationId = asst.selectedConversationId
  /\ Len(currentConversation(asst).messages) = 0

\* the panel has rendered for the first time and the effects of that render
\* have not run: the missing-connector callout is hidden only until they do,
\* while the connectors query has no data
FirstRender ==
  /\ asst.mounted /\ asst.effectsPending
  /\ ~asst.connectors.loaded
  /\ ~asst.showMissingConnectorCallout

\* the auto-populate effect gets past its first return: the current
\* conversation has no messages and is the one of the conversationId prop
AutoPopulateAllowed ==
  /\ Len(currentConversation(asst).messages) = 0
  /\ asst.conversationId = asst.selectedConversationId

\* C22 as stated, in the part a finite run refutes: whenever promptContextId
\* names a registered provider, the effects of the first render have started
\* the auto-population and the draft is the suggested prompt, whatever the
\* message count of the current conversation and however the selected
\* conversation id was initialized.
C22_Original ==
  [][ (FirstRender /\ asst.promptContextId \in PromptContextIds) =>
        /\ asst'.autoPopulatedOnce
        /\ asst'.userPrompt = SuggestedUserPrompt ]_vars

\* C22, amended: when the effects of a render run while promptContextId
\* names a registered provider, the current conversation has no messages,
\* the conversationId prop equals the selected conversation id and the
\* auto-population has not happened, the draft becomes the suggested prompt
\* and, the context not being selected, one resolution starts, whose
\* completion adds the context to the selected contexts; when the current
\* conversation has messages or the conversationId prop differs from the
\* selected conversation id, the effects start nothing and leave the draft.
C22_AutoPopulateWhenAllowed ==
  [][ /\ (/\ asst.mounted /\ asst.effectsPending
          /\ asst.promptContextId \in PromptContextIds
          /\ ~asst.autoPopulatedOnce
          /\ AutoPopulateAllowed) =>
            /\ asst'.autoPopulatedOnce
            /\ asst'.userPrompt = SuggestedUserPrompt
            /\ asst.promptContextId \notin asst.selectedPromptContexts =>
                  (asst.auto.pc = "idle" /\ asst'.auto.pc = "pending")
      /\ (asst.mounted /\ asst.effectsPending /\ ~AutoPopulateAllowed) =>
            /\ asst'.autoPopulatedOnce = asst.autoPopulatedOnce
            /\ asst'.userPrompt = asst.userPrompt
            /\ asst'.auto = asst.auto
            /\ asst'.selectedPromptContexts = asst.selectedPromptContexts
      /\ (asst.mounted /\ asst.auto.pc = "pending"
            /\ asst'.auto.pc = "resolved") =>
            asst'.selectedPromptContexts =
              asst.selectedPromptContexts \cup {asst.promptContextId}
      /\ (asst.mounted /\ asst.auto.pc = "idle") =>
            asst.promptContextId \notin asst'.selectedPromptContexts ]_vars

\* right after the first render of a panel on the empty conversation of its
\* conversationId prop: the context is attached and the draft is the
\* suggested prompt
C22_Witness ==
  /\ Ready
  /\ ~asst.connectors.loaded
  /\ asst.sends = <<>>
  /\ asst.conversationId = asst.selectedConversationId
  /\ asst.autoPopulatedOnce
  /\ asst.auto.pc = "resolved"
  /\ asst.selectedPromptContexts = {asst.promptContextId}
  /\ asst.userPrompt = SuggestedUserPrompt

\* C23: after every change of the selected conversation, through the
\* conversation selector or through the setSelectedConversationId of the
\* settings button, and after every clear-chat, the editing system prompt id
\* is the id of the default system prompt of the conversation now selected.
C23_EditingPromptReset ==
  [][ (SelectConversation \/ SettingsSelectConversation \/ ChatCleared) =>
        asst'.editingSystemPromptId =
          getDefaultSystemPrompt(
            asst'.conversations[asst'.selectedConversationId]) ]_vars

\* C24: when the effects of a render run and the connector list has been
\* loaded and is empty, the last-used conversation id becomes the welcome
\* title; otherwise it becomes the id of the current conversation unless
\* that one is flagged excludeFromLastConversationStorage, and then the
\* effect leaves what is recorded; nothing else writes the last-used id.
C24_LastConversation ==
  [][ asst.mounted =>
        LET current == asst.conversations[asst.selectedConversationId]
            last    == asst'.localStorageLastConversationId
        IN  IF ~asst.effectsPending
              THEN last = asst.localStorageLastConversationId
            ELSE IF asst.connectors.loaded /\ asst.connectors.ids = {}
              THEN last = WELCOME_CONVERSATION_TITLE
            ELSE IF current.excludeFromLastConversationStorage
              THEN last = asst.localStorageLastConversationId
            ELSE last = asst.selectedConversationId ]_vars

\* connectors are loaded, the panel went from the Alerts conversation to the
\* flagged welcome conversation and Alerts is still the last one recorded
C24_Witness ==
  /\ Ready
  /\ asst.connectors.loaded /\ asst.connectors.ids # {}
  /\ asst.conversationId = "Alerts"
  /\ asst.selectedConversationId = WELCOME_CONVERSATION_TITLE
  /\ currentConversation(asst).excludeFromLastConversationStorage
  /\ asst.localStorageLastConversationId = "Alerts"

\* C27: a send keeps the conversation that was selected when it started, and
\* when its backend call resolves the response is appended to that
\* conversation and to no other, whichever conversation is selected by then.
C27_ResponseToOwnConversation ==
  [][ \A i \in 1..MaxSends :
        /\ (i \in 1..Len(asst'.sends) /\ i \notin 1..Len(asst.sends)) =>
             asst'.sends[i].conversationId = asst.selectedConversationId
        /\ i \in 1..Len(asst.sends) =>
             asst'.sends[i].conversationId = asst.sends[i].conversationId
        /\ ResolveStep(i) =>
             \A c \in ConversationIds :
               asst'.conversations[c].messages =
                 IF c = asst.sends[i].conversationId
                   THEN Append(asst.conversations[c].messages,
                               getMessageFromRawResponse(RawResponses[i]))
                   ELSE asst.conversations[c].messages ]_vars

\* the response of a send made in the Alerts conversation has just arrived
\* in a panel that shows the welcome conversation, and has had the effects
\* of a render of that conversation run: the response is the last message
\* of Alerts and the welcome conversation holds nothing
C27_Witness ==
  /\ asst.mounted /\ asst.effectsPending
  /\ asst.selectedConversationId = WELCOME_CONVERSATION_TITLE
  /\ asst.showMissingConnectorCallout
  /\ asst.selectedPromptContexts = {}
  /\ ~asst.isLoading
  /\ Len(asst.sends) = 1
  /\ asst.sends[1].pc = "done"
  /\ asst.sends[1].conversationId = "Alerts"
  /\ LastOf(asst.conversations["Alerts"].messages) =
       getMessageFromRawResponse(RawResponses[1])
  /\ asst.conversations[WELCOME_CONVERSATION_TITLE].messages = <<>>

=============================================================================
